---- MODULE Spec2Model ----
(***************************************************************************)
(* A model of mkdocs-bibtex: the plugin that rewrites the citation blocks  *)
(* of a Markdown page and assembles its bibliography.                       *)
(*                                                                         *)
(* A Markdown document is modelled as a sequence of tokens.  A token is a  *)
(* record [t, keys, items]: `t' names what the piece of text is, `keys'    *)
(* lists the citation keys written in a cite block and `items' lists the   *)
(* index entries a generated piece of text was rendered from.  A citation  *)
(* key is a sequence of characters, so that one key can be a prefix of     *)
(* another.  A Python dict is modelled as a sequence in insertion order.   *)
(***************************************************************************)
EXTENDS Naturals, Sequences, FiniteSets, TLC

(***************************************************************************)
(* Bounds of the model.                                                    *)
(***************************************************************************)
\* Largest number of cite blocks in a document handed to on_page_markdown.
MaxCites == 2
\* Largest number of files handed to on_files.
MaxFiles == 2
\* Largest number of blocks handed to validate_citation_blocks.
MaxBlocks == 2
\* Largest number of references handed to validate_inline_references.
MaxRefs == 2

(***************************************************************************)
(* Citation keys and the bibliography file.                                *)
(***************************************************************************)
KeyT == <<"t">>
KeyT2 == <<"t", "2">>
KeyU == <<"u">>
\* A key that no bibliography file defines.
KeyZ == <<"z">>

\* The entries of the bib file, in file order (what parse_file returns).
BibFileEntries == <<KeyT, KeyT2, KeyU>>

\* Two entries of a second bib file whose rendered text holds a backslash:
\* the title of b has one, which the Markdown backends write as two, and
\* the text of l keeps a TeX command.
KeyB == <<"b">>
KeyL == <<"l">>
BackslashBibEntries == <<KeyT, KeyB, KeyL>>

\* The characters of the fields of an entry, as a backend writes them
\* into the rendered text.
EntryText(key) ==
    IF key = KeyB THEN <<"a", "\\", "\\", "b">>
    ELSE IF key = KeyL THEN <<"\\", "L">>
    ELSE key

SeqToSet(s) == {s[i] : i \in 1..Len(s)}

\* `key in self.bib_data.entries'
InBib(key, bib) == key \in SeqToSet(bib)

(***************************************************************************)
(* Tokens of a document.                                                   *)
(***************************************************************************)
Tok(kind, ks, its) == [t |-> kind, keys |-> ks, items |-> its]

Text == Tok("text", <<>>, <<>>)
Newline == Tok("newline", <<>>, <<>>)
\* A bracketed cite block "[@k1; @k2]" naming the keys ks.
Cite(ks) == Tok("cite", ks, <<>>)
\* A bare "@k" in the running text.
At(k) == Tok("at", <<k>>, <<>>)
\* The per-page marker (default "\bibliography").
PerPageBibCommand == Tok("per_page_bib_command", <<>>, <<>>)
\* The full-bibliography marker (default "\full_bibliography").
GlobalBibCommand == Tok("global_bib_command", <<>>, <<>>)

\* "[@t2 see [@t]", as find_cite_blocks cuts it out of "[@t2 see [@t]]": a
\* cite block whose suffix holds the raw text of the block "[@t]".
NestedCite == Tok("cite", <<KeyT2, KeyT>>, <<Cite(<<KeyT>>)>>)

\* "[@t]", "[@t2]", "[@t; @z; @t2]" and "[@z]".
CiteBlocks == {Cite(<<KeyT>>), Cite(<<KeyT2>>), Cite(<<KeyT, KeyZ, KeyT2>>),
               Cite(<<KeyZ>>)}

SeqsUpTo(S, n) == UNION {[1..m -> S] : m \in 0..n}

\* What follows the cite blocks of a document.
Tails == {<<>>, <<PerPageBibCommand>>, <<Text, GlobalBibCommand>>}

\* The documents the model feeds to the plugin.
Docs == {body \o tail : body \in SeqsUpTo(CiteBlocks, MaxCites),
                        tail \in Tails}

\* "@t2", "[@t]" and "@z": what the documents fed to the plugin with
\* selectable cite_style cite.
LegacyCites == {At(KeyT2), Cite(<<KeyT>>), Cite(<<KeyT, KeyT2>>), At(KeyZ)}

LegacyDocs == {body \o tail : body \in SeqsUpTo(LegacyCites, MaxCites),
                              tail \in Tails}

\* A file of the site, as on_files reads it.
File(is_page, content) ==
    [is_documentation_page |-> is_page, content_string |-> content]

\* The files a site is made of.
SiteFiles == {File(TRUE, <<Cite(<<KeyT2>>), PerPageBibCommand>>),
              File(TRUE, <<Cite(<<KeyT, KeyZ, KeyT2>>), Cite(<<KeyZ>>)>>),
              File(TRUE, <<Text, GlobalBibCommand>>),
              File(FALSE, <<Cite(<<KeyT>>)>>)}

\* The lists of files on_files can receive.
FileLists == SeqsUpTo(SiteFiles, MaxFiles)

RECURSIVE Concat(_)
Concat(ss) == IF ss = <<>> THEN <<>> ELSE Head(ss) \o Concat(Tail(ss))

\* A faulty variant of Replace: str.replace(old, new, 1), only the first
\* occurrence becomes repl.
RECURSIVE Replace_FirstOnly(_, _, _)
Replace_FirstOnly(md, tok, repl) ==
    IF md = <<>> THEN <<>>
    ELSE IF Head(md) = tok THEN repl \o Tail(md)
    ELSE <<Head(md)>> \o Replace_FirstOnly(Tail(md), tok, repl)

\* str.replace / re.sub of a literal: every occurrence of tok becomes repl,
\* an occurrence within the raw text of a cite block included.
RECURSIVE Replace(_, _, _)
Replace(md, tok, repl) ==
    IF md = <<>> THEN <<>>
    ELSE (IF Head(md) = tok THEN repl
          ELSE IF Head(md).t = "cite" /\ tok \in SeqToSet(Head(md).items)
          THEN <<[Head(md) EXCEPT !.items = Replace(@, tok, repl)]>>
          ELSE <<Head(md)>>)
         \o Replace(Tail(md), tok, repl)

Count(md, kind) == Cardinality({i \in 1..Len(md) : md[i].t = kind})

(***************************************************************************)
(* The plugin with a citation index (src/src/mkdocs_bibtex).               *)
(***************************************************************************)
\* A missing value (Python's None) of a string option.
None == "None"

\* The configurations of the plugin with a citation index the model is
\* run under.  cite_format inline requires a CSL file (on_config), the
\* other formats take one or none; ref_format is left at its default.
\* `plugin' tells the two plugin.py of the repository apart.
Configs ==
    {c \in [plugin : {"indexed"},
            cite_format : {"footnote", "link", "inline"},
            bib_type : {"per_page", "global"},
            automatic_per_page : BOOLEAN,
            csl_file : {None, "style.csl"},
            ref_format : {"{number}-{key}"},
            cite_style : {None},
            bib_file : {"test.bib"},
            bib_dir : {None}] :
        c.cite_format = "inline" => c.csl_file # None}

\* Versions of pandoc, as the tuples the code compares: 2.10, 2.11,
\* 2.11.4 and 3.1.2.
PandocVersions == {<<2, 10>>, <<2, 11>>, <<2, 11, 4>>, <<3, 1, 2>>}

\* The pandoc the plugin and the registry are otherwise run with.
CurrentPandoc == <<3, 1, 2>>

\* Python's `a < b' and `a <= b' on tuples of integers.
RECURSIVE TupleLess(_, _)
TupleLess(a, b) ==
    IF b = <<>> THEN FALSE
    ELSE IF a = <<>> THEN TRUE
    ELSE IF Head(a) # Head(b) THEN Head(a) < Head(b)
    ELSE TupleLess(Tail(a), Tail(b))

TupleLessEq(a, b) == a = b \/ TupleLess(a, b)

\* `"{number}" in ref_format or "{key}" in ref_format'
HasPlaceholder(ref_format) ==
    ref_format \in {"{number}", "{key}", "{number}-{key}"}

\* What a reloaded mkdocs.yml can turn a configuration into: no
\* bibliography source, a ref_format without placeholder, cite_format
\* inline without CSL file.
BrokenConfigs(c) ==
    {[c EXCEPT !.bib_file = None], [c EXCEPT !.ref_format = ""]}
        \cup (IF c.cite_format = "inline"
              THEN {[c EXCEPT !.csl_file = None]} ELSE {})

AllBrokenConfigs == UNION {BrokenConfigs(c) : c \in Configs}

\* The exception on_config raises.
ConfigurationError == "ConfigurationError"

\* A faulty variant of on_config: the bibliography is loaded before the
\* configuration is examined.
on_config_LoadsFirst(cfg, bib, last_conf) ==
    [bib_data |-> BibFileEntries, last_configured |-> TRUE,
     error |-> IF \/ (cfg.bib_file = None /\ cfg.bib_dir = None)
                  \/ (cfg.cite_format = "inline" /\ cfg.csl_file = None)
                  \/ ~HasPlaceholder(cfg.ref_format)
               THEN ConfigurationError ELSE None]

\* BibTexPlugin.on_config: the three checks, in the order of the code, and
\* then the load of the bibliography.  Returns self.bib_data.entries and
\* whether self.last_configured is set as the call leaves them, and the
\* exception raised, if any.
on_config(cfg, bib, last_conf) ==
    IF cfg.bib_file = None /\ cfg.bib_dir = None
    THEN [bib_data |-> bib, last_configured |-> last_conf,
          error |-> ConfigurationError]
    ELSE IF cfg.cite_format = "inline" /\ cfg.csl_file = None
    THEN [bib_data |-> bib, last_configured |-> last_conf,
          error |-> ConfigurationError]
    ELSE IF ~HasPlaceholder(cfg.ref_format)
    THEN [bib_data |-> bib, last_configured |-> last_conf,
          error |-> ConfigurationError]
    ELSE [bib_data |-> BibFileEntries, last_configured |-> TRUE,
          error |-> None]

\* ref_format with "{number}" and "{key}" substituted: the footnote label.
FormatRef(ref_format, idx, key) ==
    [format |-> ref_format,
     number |-> IF ref_format \in {"{number}", "{number}-{key}"}
                THEN idx ELSE 0,
     key |-> IF ref_format \in {"{key}", "{number}-{key}"}
             THEN key ELSE <<>>]

\* One CitationIndexEntry together with the dict key it is stored under.
\* formatted_md is the entry as rendered by the named backend: the layout of
\* that backend around the characters of the entry.
CitationIndexEntry(key, idx, cfg) ==
    [key |-> key,
     idx |-> idx,
     formatted_md |->
         [backend |-> IF cfg.csl_file # None THEN "pandoc" ELSE "simple",
          text |-> EntryText(key)],
     ref |-> FormatRef(cfg.ref_format, idx, key),
     page |-> IF cfg.bib_type = "global" THEN "/bibliography.md" ELSE ""]

\* `key in index'
InIndex(key, index) == \E i \in 1..Len(index) : index[i].key = key

\* `index[key]'
IndexGet(index, key) ==
    index[CHOOSE i \in 1..Len(index) : index[i].key = key]

\* `mapping[cite_block] = keys' on an insertion-ordered dict.
MapPut(mapping, block, ks) ==
    IF \E i \in 1..Len(mapping) : mapping[i].block = block
    THEN [i \in 1..Len(mapping) |->
             IF mapping[i].block = block
             THEN [block |-> block, keys |-> ks] ELSE mapping[i]]
    ELSE Append(mapping, [block |-> block, keys |-> ks])

\* utils.extract_cite_keys: the keys written after each "@" of the block.
extract_cite_keys(cite_block) == cite_block.keys

\* utils.find_cite_blocks: the cite blocks of a document, in document order.
find_cite_blocks(markdown) ==
    SelectSeq(markdown, LAMBDA tok : tok.t = "cite")

\* A faulty variant of the inner loop of generate_index: the ordinal counter is
\* advanced for every known key, also for one that is in the index already.
RECURSIVE GenerateIndexKeys_CountsRepeats(_, _, _, _)
GenerateIndexKeys_CountsRepeats(ks, acc, bib, cfg) ==
    IF ks = <<>> THEN acc
    ELSE LET key == Head(ks) IN
         IF ~InBib(key, bib)
         THEN GenerateIndexKeys_CountsRepeats(Tail(ks), acc, bib, cfg)
         ELSE IF ~InIndex(key, acc.index)
         THEN GenerateIndexKeys_CountsRepeats(Tail(ks),
                  [index |-> Append(acc.index,
                                    CitationIndexEntry(key, acc.idx, cfg)),
                   idx |-> acc.idx + 1,
                   keys |-> Append(acc.keys, key),
                   calls |-> acc.calls
                             + (IF cfg.csl_file # None THEN 1 ELSE 0)],
                  bib, cfg)
         ELSE GenerateIndexKeys_CountsRepeats(Tail(ks),
                  [acc EXCEPT !.keys = Append(acc.keys, key),
                              !.idx = @ + 1], bib, cfg)

\* A faulty variant of the inner loop of generate_index: a key that is not in
\* the bibliography is listed under its cite block all the same.
RECURSIVE GenerateIndexKeys_ListsUnknown(_, _, _, _)
GenerateIndexKeys_ListsUnknown(ks, acc, bib, cfg) ==
    IF ks = <<>> THEN acc
    ELSE LET key == Head(ks) IN
         IF ~InBib(key, bib)
         THEN GenerateIndexKeys_ListsUnknown(Tail(ks),
                  [acc EXCEPT !.keys = Append(acc.keys, key)], bib, cfg)
         ELSE IF ~InIndex(key, acc.index)
         THEN GenerateIndexKeys_ListsUnknown(Tail(ks),
                  [index |-> Append(acc.index,
                                    CitationIndexEntry(key, acc.idx, cfg)),
                   idx |-> acc.idx + 1,
                   keys |-> Append(acc.keys, key),
                   calls |-> acc.calls
                             + (IF cfg.csl_file # None THEN 1 ELSE 0)],
                  bib, cfg)
         ELSE GenerateIndexKeys_ListsUnknown(Tail(ks),
                  [acc EXCEPT !.keys = Append(acc.keys, key)], bib, cfg)

\* The inner loop of generate_index over the keys of one cite block.
\* acc = [index, idx, keys, calls]: the index so far, the next ordinal, the
\* keys resolved for this block and the calls of the external engine.
RECURSIVE GenerateIndexKeys(_, _, _, _)
GenerateIndexKeys(ks, acc, bib, cfg) ==
    IF ks = <<>> THEN acc
    ELSE LET key == Head(ks) IN
         IF ~InBib(key, bib)
         THEN GenerateIndexKeys(Tail(ks), acc, bib, cfg)
         ELSE IF ~InIndex(key, acc.index)
         THEN GenerateIndexKeys(Tail(ks),
                  [index |-> Append(acc.index,
                                    CitationIndexEntry(key, acc.idx, cfg)),
                   idx |-> acc.idx + 1,
                   keys |-> Append(acc.keys, key),
                   calls |-> acc.calls
                             + (IF cfg.csl_file # None THEN 1 ELSE 0)],
                  bib, cfg)
         ELSE GenerateIndexKeys(Tail(ks),
                  [acc EXCEPT !.keys = Append(acc.keys, key)], bib, cfg)

\* The outer loop of generate_index over the cite blocks.
\* acc = [index, mapping, idx, calls].
RECURSIVE GenerateIndexBlocks(_, _, _, _)
GenerateIndexBlocks(cite_keys, acc, bib, cfg) ==
    IF cite_keys = <<>> THEN acc
    ELSE LET cite_block == Head(cite_keys)
             r == GenerateIndexKeys(extract_cite_keys(cite_block),
                      [index |-> acc.index, idx |-> acc.idx,
                       keys |-> <<>>, calls |-> acc.calls], bib, cfg)
         IN GenerateIndexBlocks(Tail(cite_keys),
                [index |-> r.index,
                 mapping |-> MapPut(acc.mapping, cite_block, r.keys),
                 idx |-> r.idx,
                 calls |-> r.calls], bib, cfg)

\* BibTexPlugin.generate_index: [index, mapping, idx, calls].
generate_index(cite_keys, bib, cfg) ==
    GenerateIndexBlocks(cite_keys,
        [index |-> <<>>, mapping |-> <<>>, idx |-> 1, calls |-> 0], bib, cfg)

\* The index entries of a list of keys.
Entries(index, ks) == [i \in 1..Len(ks) |-> IndexGet(index, ks[i])]

\* utils.insert_citation_keys_footnote: each cite block of the mapping is
\* replaced by the footnote marks "[^ref]" of its keys, joined by "".
RECURSIVE insert_citation_keys_footnote(_, _, _)
insert_citation_keys_footnote(citation_index, mapping, markdown) ==
    IF mapping = <<>> THEN markdown
    ELSE LET cite_group == Head(mapping).block
             cite_keys == Head(mapping).keys
             replacement ==
                 IF cite_keys = <<>> THEN <<>>
                 ELSE <<Tok("footnotes", cite_keys,
                            Entries(citation_index, cite_keys))>>
         IN insert_citation_keys_footnote(citation_index, Tail(mapping),
                Replace(markdown, cite_group, replacement))

\* utils.insert_citation_keys_link: each cite block of the mapping is
\* replaced by "[" + the links "[idx](page#ref)" of its keys + "]".
RECURSIVE insert_citation_keys_link(_, _, _)
insert_citation_keys_link(citation_index, mapping, markdown) ==
    IF mapping = <<>> THEN markdown
    ELSE LET cite_group == Head(mapping).block
             cite_keys == Head(mapping).keys
             replacement ==
                 <<Tok("links", cite_keys,
                       Entries(citation_index, cite_keys))>>
         IN insert_citation_keys_link(citation_index, Tail(mapping),
                Replace(markdown, cite_group, replacement))

\* The oldest pandoc the code accepts: (2, 11).
MinPandoc == <<2, 11>>

\* utils.insert_citation_keys_inline: for each cite block of the mapping,
\* in order, the version of pandoc is examined (RuntimeError for a version
\* `<= (2, 11)'), the block is converted by pandoc and every occurrence of
\* it is replaced by the rendered citation followed by the footnote marks
\* of its keys.  `acc' is the document so far with the conversions made.
RECURSIVE insert_citation_keys_inline(_, _, _, _, _, _)
insert_citation_keys_inline(citation_index, mapping, acc, csl_path, bib, version) ==
    IF mapping = <<>> THEN [out |-> acc.out, error |-> None,
                            calls |-> acc.calls]
    ELSE IF TupleLessEq(version, MinPandoc)
    THEN [out |-> <<>>, error |-> "RuntimeError", calls |-> acc.calls]
    ELSE LET cite_group == Head(mapping).block
             cite_keys == Head(mapping).keys
             replacement ==
                 <<Tok("inline", cite_group.keys,
                       Entries(citation_index, cite_keys))>>
         IN insert_citation_keys_inline(citation_index, Tail(mapping),
                [out |-> Replace(acc.out, cite_group, replacement),
                 calls |-> acc.calls + 1],
                csl_path, bib, version)

\* utils.format_pandoc: the converter the version of pandoc selects.
format_pandoc(entry, csl_path, version) ==
    IF ~TupleLess(version, MinPandoc)
    THEN [key |-> entry, formatted_md |-> "_convert_pandoc_new"]
    ELSE [key |-> entry, formatted_md |-> "_convert_pandoc_legacy"]

\* PandocRegistry.__init__, the version check: the exception raised, if any.
pandoc_registry_init(version) ==
    IF TupleLess(version, MinPandoc) THEN "ValueError" ELSE None

\* utils.format_bibliography_footnote: one row "[^ref]: formatted_md" per
\* index entry, joined by newlines (the empty string for an empty index).
format_bibliography_footnote(citation_index) ==
    IF citation_index = <<>> THEN <<>>
    ELSE <<Tok("bibliography_footnote", <<>>, citation_index)>>

\* utils.format_bibliography_link: a table with one row per index entry.
format_bibliography_link(citation_index) ==
    <<Tok("bibliography_link", <<>>, citation_index)>>

\* BibTexPlugin.generate_bibliography
generate_bibliography(index, add_line, cfg) ==
    LET bibliography ==
            IF cfg.cite_format \in {"footnote", "inline"}
            THEN format_bibliography_footnote(index)
            ELSE format_bibliography_link(index)
    IN IF add_line /\ Len(index) # 0
       THEN <<Tok("rule", <<>>, <<>>)>> \o bibliography
       ELSE bibliography

\* What a raised TypeError leaves instead of a returned document.
TypeError == <<Tok("TypeError", <<>>, <<>>)>>

\* What a raised re.error leaves instead of a returned document.
ReError == <<Tok("re.error", <<>>, <<>>)>>

\* The escapes of a replacement template that stand for one control
\* character, and the other characters with a meaning after a backslash.
ControlEscapes == {"a", "b", "f", "n", "r", "t", "v"}
AsciiLetters == {"a", "b", "f", "g", "l", "n", "r", "t", "u", "v", "z",
                 "L", "T", "U"}
Digits == {"1", "2"}

\* The control character a control escape stands for.
ControlChar(c) ==
    CASE c = "a" -> "BEL" [] c = "b" -> "BS" [] c = "f" -> "FF"
      [] c = "n" -> "LF" [] c = "r" -> "CR" [] c = "t" -> "TAB"
      [] c = "v" -> "VT"

\* How re.sub reads a replacement string: "\\" is one backslash, a control
\* escape is its control character, a backslash before a digit or "g" is a
\* group reference (the marker patterns have no group), before another
\* letter or at the end it is an error, before anything else it is kept.
RECURSIVE expand_template(_)
expand_template(repl) ==
    IF repl = <<>> THEN [ok |-> TRUE, text |-> <<>>]
    ELSE IF Head(repl) # "\\"
    THEN LET rest == expand_template(Tail(repl))
         IN [ok |-> rest.ok, text |-> <<Head(repl)>> \o rest.text]
    ELSE IF Len(repl) = 1 THEN [ok |-> FALSE, text |-> <<>>]
    ELSE LET c == repl[2]
             rest == expand_template(Tail(Tail(repl)))
         IN IF c = "\\"
            THEN [ok |-> rest.ok, text |-> <<"\\">> \o rest.text]
            ELSE IF c \in ControlEscapes
            THEN [ok |-> rest.ok, text |-> <<ControlChar(c)>> \o rest.text]
            ELSE IF c \in Digits \cup AsciiLetters
            THEN [ok |-> FALSE, text |-> <<>>]
            ELSE [ok |-> rest.ok, text |-> <<"\\", c>> \o rest.text]

\* re.sub(re.escape(command), bibliography, markdown): the bibliography is
\* read as a template before any occurrence is looked for, and every
\* occurrence of the command is replaced by the expanded template.
re_sub(command, bibliography, markdown) ==
    LET Expanded(tok) ==
            [tok EXCEPT !.items =
                [j \in 1..Len(tok.items) |->
                    [tok.items[j] EXCEPT !.formatted_md.text =
                        expand_template(@).text]]]
        Valid(tok) ==
            \A j \in 1..Len(tok.items) :
                expand_template(tok.items[j].formatted_md.text).ok
    IN IF markdown = ReError
          \/ \E i \in 1..Len(bibliography) : ~Valid(bibliography[i])
       THEN ReError
       ELSE Replace(markdown, command,
                    [i \in 1..Len(bibliography) |->
                        Expanded(bibliography[i])])

\* A faulty variant of page_index: the ordinal counter and the index are kept on
\* the plugin object, so a page is numbered after the page before it.
page_index_KeepsCounter(markdown, cfg, bib, global_index, global_map) ==
    LET local == generate_index(find_cite_blocks(markdown), bib, cfg)
        n == Len(global_index)
        shifted == [i \in 1..Len(local.index) |->
                       [local.index[i] EXCEPT !.idx = @ + n,
                                              !.ref.number = @ + n]]
    IN IF cfg.bib_type = "per_page"
       THEN [index |-> shifted, mapping |-> local.mapping,
             calls |-> local.calls,
             global_citation_index |-> local.index,
             global_mapping |-> global_map]
       ELSE [index |-> global_index, mapping |-> global_map, calls |-> 0,
             global_citation_index |-> global_index,
             global_mapping |-> global_map]

\* A faulty variant of page_index: in global scope the index is rebuilt from the
\* page and stored on the plugin object.
page_index_RebuildsGlobal(markdown, cfg, bib, global_index, global_map) ==
    LET local == generate_index(find_cite_blocks(markdown), bib, cfg)
    IN [index |-> local.index, mapping |-> local.mapping,
        calls |-> local.calls,
        global_citation_index |->
            IF cfg.bib_type = "per_page" THEN global_index ELSE local.index,
        global_mapping |->
            IF cfg.bib_type = "per_page" THEN global_map ELSE local.mapping]

\* on_page_markdown, the choice of the index: a fresh one for the page in
\* per-page scope, the site-wide one (read, not written) in global scope.
\* Also the calls of the external engine and the two site-wide attributes
\* of the plugin object as the step leaves them.
page_index(markdown, cfg, bib, global_index, global_map) ==
    LET local == generate_index(find_cite_blocks(markdown), bib, cfg)
    IN IF cfg.bib_type = "per_page"
       THEN [index |-> local.index, mapping |-> local.mapping,
             calls |-> local.calls,
             global_citation_index |-> global_index,
             global_mapping |-> global_map]
       ELSE [index |-> global_index, mapping |-> global_map, calls |-> 0,
             global_citation_index |-> global_index,
             global_mapping |-> global_map]

\* on_page_markdown, the conversion of the cite blocks.  The call for
\* cite_format inline passes four arguments to a function of five and
\* raises TypeError.
insert_citations(citation_index, mapping, markdown, cfg) ==
    IF cfg.cite_format = "inline" THEN TypeError
    ELSE IF cfg.cite_format = "footnote"
    THEN insert_citation_keys_footnote(citation_index, mapping, markdown)
    ELSE insert_citation_keys_link(citation_index, mapping, markdown)

\* A faulty variant of automatic_insert: the marker is appended only to a page
\* that has none.
automatic_insert_IfAbsent(markdown, cfg) ==
    IF cfg.automatic_per_page
       /\ \A i \in 1..Len(markdown) : markdown[i] # PerPageBibCommand
    THEN markdown \o <<Newline, PerPageBibCommand>>
    ELSE markdown

\* on_page_markdown, the automatic per-page bibliography:
\* markdown += "\n" + per_page_bib_command.
automatic_insert(markdown, cfg) ==
    IF cfg.automatic_per_page
    THEN markdown \o <<Newline, PerPageBibCommand>>
    ELSE markdown

\* on_page_markdown, the replacement of the two markers.
insert_bibliography(citation_index, markdown, cfg) ==
    IF cfg.bib_type = "per_page"
    THEN re_sub(GlobalBibCommand, <<>>,
             re_sub(PerPageBibCommand,
                    generate_bibliography(citation_index,
                                          cfg.cite_format = "link", cfg),
                    markdown))
    ELSE re_sub(PerPageBibCommand, <<>>,
             re_sub(GlobalBibCommand,
                    generate_bibliography(citation_index, FALSE, cfg),
                    markdown))

\* BibTexPlugin.on_page_markdown: the returned document `out' (or the
\* error raised), the calls of the external engine and the two site-wide
\* attributes of the plugin object as the call leaves them.
on_page_markdown(markdown, cfg, bib, global_index, global_map) ==
    LET pi == page_index(markdown, cfg, bib, global_index, global_map)
        md1 == insert_citations(pi.index, pi.mapping, markdown, cfg)
    IN [out |-> IF md1 = TypeError THEN TypeError
                ELSE insert_bibliography(pi.index,
                                         automatic_insert(md1, cfg), cfg),
        calls |-> pi.calls,
        global_citation_index |-> pi.global_citation_index,
        global_mapping |-> pi.global_mapping]

(***************************************************************************)
(* The plugin with selectable cite_style (src/mkdocs_bibtex/plugin.py).    *)
(***************************************************************************)
\* The configurations of this plugin the model is run under.
LegacyConfigs ==
    [plugin : {"legacy"},
     cite_format : {None},
     bib_type : {None},
     automatic_per_page : {FALSE},
     csl_file : {None, "style.csl"},
     ref_format : {None},
     cite_style : {"plain", "pandoc"}]

IsPrefix(p, q) == Len(p) <= Len(q) /\ SubSeq(q, 1, Len(p)) = p

\* self.cite_regex.findall(markdown): with cite_style plain the key after
\* every "@", with cite_style pandoc the key of every "[@key]".
legacy_cite_keys(markdown, cite_style) ==
    Concat([i \in 1..Len(markdown) |->
               IF cite_style = "plain"
               THEN (IF markdown[i].t \in {"at", "cite"}
                     THEN markdown[i].keys ELSE <<>>)
               ELSE (IF markdown[i].t = "cite" /\ Len(markdown[i].keys) = 1
                     THEN markdown[i].keys ELSE <<>>)])

\* `d[key] = text' on an OrderedDict of reference rows.
RefPut(refs, key, text) ==
    IF \E i \in 1..Len(refs) : refs[i].key = key
    THEN [i \in 1..Len(refs) |->
             IF refs[i].key = key
             THEN [refs[i] EXCEPT !.formatted_md = text] ELSE refs[i]]
    ELSE Append(refs, [key |-> key, idx |-> Len(refs) + 1,
                       formatted_md |-> text])

\* BibTexPlugin.format_citations: the references of the page and
\* self.all_references, each an OrderedDict in insertion order, and the
\* calls of the external engine.
RECURSIVE format_citations(_, _, _)
format_citations(citations, csl_file, acc) ==
    IF citations = <<>> THEN acc
    ELSE LET key == Head(citations)
             entry_text == IF csl_file # None THEN "pandoc" ELSE "simple"
         IN format_citations(Tail(citations), csl_file,
                [references |-> RefPut(acc.references, key, entry_text),
                 all_references |->
                     RefPut(acc.all_references, key, entry_text),
                 calls |-> acc.calls + (IF csl_file # None THEN 1 ELSE 0)])

\* The "@key" written in a token, each with the footnote number that
\* replaced it (0: none yet) and the characters left behind it.
Written(tok) ==
    IF tok.items # <<>> THEN tok.items
    ELSE [j \in 1..Len(tok.keys) |->
             [key |-> tok.keys[j], idx |-> 0, rest |-> tok.keys[j]]]

\* re.sub(insert_regex.format(key), "[^number]", markdown) on one token.
\* plain: every "@key" is replaced, wherever it is written; pandoc: every
\* "[@key]" is.
legacy_sub(tok, cite_style, key, number, text) ==
    IF cite_style = "plain"
    THEN IF tok.t \in {"at", "cite"}
            /\ \E j \in 1..Len(Written(tok)) :
                  Written(tok)[j].idx = 0 /\ IsPrefix(key, Written(tok)[j].rest)
         THEN [tok EXCEPT !.items =
                  [j \in 1..Len(Written(tok)) |->
                      LET w == Written(tok)[j] IN
                      IF w.idx = 0 /\ IsPrefix(key, w.rest)
                      THEN [key |-> w.key, idx |-> number,
                            rest |-> SubSeq(w.rest, Len(key) + 1,
                                            Len(w.rest))]
                      ELSE w]]
         ELSE tok
    ELSE IF tok = Cite(<<key>>)
         THEN Tok("footnotes", <<key>>,
                  <<[key |-> key, idx |-> number, formatted_md |-> text]>>)
         ELSE tok

\* Step 3 of on_page_markdown: the references, in order, replace their
\* cite keys by footnote numbers.
RECURSIVE legacy_insert(_, _, _)
legacy_insert(references, cite_style, markdown) ==
    IF references = <<>> THEN markdown
    ELSE LET r == Head(references)
         IN legacy_insert(Tail(references), cite_style,
                [i \in 1..Len(markdown) |->
                    legacy_sub(markdown[i], cite_style, r.key, r.idx,
                               r.formatted_md)])

\* BibTexPlugin.full_bibliography: a numbered row per reference of
\* self.all_references (the empty string when there is none).
full_bibliography(all_refs) ==
    IF all_refs = <<>> THEN <<>>
    ELSE <<Tok("full_bibliography", <<>>, all_refs)>>

\* BibTexPlugin.on_page_markdown of this plugin: the returned document,
\* self.all_references as the call leaves it and the calls of the engine.
legacy_on_page_markdown(markdown, cfg, bib, all_refs) ==
    LET cite_keys == legacy_cite_keys(markdown, cfg.cite_style)
        citations == SelectSeq(cite_keys, LAMBDA k : InBib(k, bib))
        fc == format_citations(citations, cfg.csl_file,
                  [references |-> <<>>, all_references |-> all_refs,
                   calls |-> 0])
        md1 == legacy_insert(fc.references, cfg.cite_style, markdown)
        bibliography ==
            IF fc.references = <<>> THEN <<>>
            ELSE <<Tok("bibliography_footnote", <<>>, fc.references)>>
        md2 == Replace(md1, PerPageBibCommand, bibliography)
        md3 == Replace(md2, GlobalBibCommand,
                       full_bibliography(fc.all_references))
    IN [out |-> md3, all_references |-> fc.all_references,
        calls |-> fc.calls]

(***************************************************************************)
(* PandocRegistry (registry.py).  A CitationBlock is the sequence of the    *)
(* keys of its citations and stands for its own str(); an InlineReference   *)
(* is its key.  A cache is a function from blocks, or from keys, to         *)
(* rendered text.                                                           *)
(***************************************************************************)
RegistryBlocks ==
    {<<KeyT>>, <<KeyT, KeyT2>>, <<KeyT, KeyZ>>, <<KeyZ>>}

BlockLists == SeqsUpTo(RegistryBlocks, MaxBlocks)

RegistryKeys == {KeyT, KeyT2, KeyZ}

ReferenceLists == SeqsUpTo(RegistryKeys, MaxRefs)

EmptyCache == [x \in {} |-> <<>>]

\* The keys of self.bib_data.entries the blocks cite.
CitedEntries(citation_blocks) ==
    {k \in SeqToSet(BibFileEntries) :
        \E i \in 1..Len(citation_blocks) :
            k \in SeqToSet(citation_blocks[i])}

\* The entries `test` and `test2` have the same authors and the same year:
\* the citation processor tells them apart with a year suffix when, and
\* only when, the document it is given cites both.
SameAuthorYear == {KeyT, KeyT2}

YearSuffix(key, cited) ==
    IF key \in SameAuthorYear /\ SameAuthorYear \subseteq cited
    THEN IF key = KeyT THEN "a" ELSE "b"
    ELSE ""

\* What pandoc writes for one citation of the synthetic document.
RenderCitation(key, cited) ==
    IF key \in cited
    THEN [key |-> key, year |-> YearSuffix(key, cited)]
    ELSE [key |-> key, year |-> "?"]

\* What pandoc's output can look like to the parser of _process_with_pandoc:
\* the layout the parser expects, an output without the "# References"
\* heading, or a references section whose entries match none of the three
\* patterns.
WellFormed == "well_formed"
NoReferencesSection == "no_references_section"
NoEntryMatches == "no_entry_matches"
OutputShapes == {WellFormed, NoReferencesSection, NoEntryMatches}
Unparsable == {NoReferencesSection, NoEntryMatches}

\* The exception _process_with_pandoc raises when the split at the heading
\* fails; its only argument is a fixed message.
ParseError == "ValueError: Failed to parse pandoc output"

\* PandocRegistry._process_with_pandoc: one run of pandoc over all the
\* blocks, parsed back into the two caches.  The inline cache is filled from
\* the text before the heading, the reference cache from the pattern matches
\* after it.
process_with_pandoc(citation_blocks, shape) ==
    LET cited == CitedEntries(citation_blocks)
        blocks == SeqToSet(citation_blocks)
    IN IF shape = NoReferencesSection
       THEN [inline_cache |-> EmptyCache,
             reference_cache |-> EmptyCache,
             error |-> ParseError]
       ELSE [inline_cache |->
                [b \in blocks |->
                    [i \in 1..Len(b) |-> RenderCitation(b[i], cited)]],
             reference_cache |->
                IF shape = NoEntryMatches
                THEN EmptyCache
                ELSE [k \in cited |-> RenderCitation(k, cited)],
             error |-> None]

\* dict.update
DictUpdate(old, new) ==
    [x \in DOMAIN old \cup DOMAIN new |->
        IF x \in DOMAIN new THEN new[x] ELSE old[x]]

\* PandocRegistry.validate_citation_blocks
validate_citation_blocks(citation_blocks, is_inl, inl_cache, ref_cache, shape) ==
    LET Unprocessed(b) ==
            IF is_inl
            THEN b \notin DOMAIN inl_cache
            ELSE ~ \A i \in 1..Len(b) : b[i] \in DOMAIN ref_cache
        unprocessed_blocks == SelectSeq(citation_blocks, Unprocessed)
        r == process_with_pandoc(unprocessed_blocks, shape)
    IN IF Len(unprocessed_blocks) > 0 /\ r.error = None
       THEN [inline_cache |-> DictUpdate(inl_cache, r.inline_cache),
             reference_cache |-> DictUpdate(ref_cache, r.reference_cache),
             calls |-> 1,
             error |-> None]
       ELSE [inline_cache |-> inl_cache,
             reference_cache |-> ref_cache,
             calls |-> IF Len(unprocessed_blocks) > 0 THEN 1 ELSE 0,
             error |-> IF Len(unprocessed_blocks) > 0 THEN r.error ELSE None]

\* PandocRegistry.validate_inline_references
validate_inline_references(inline_references, ref_cache, shape) ==
    LET valid_references ==
            {k \in SeqToSet(inline_references) :
                k \in SeqToSet(BibFileEntries)}
        Valid(k) == k \in valid_references
        refs == SelectSeq(inline_references, Valid)
        r == process_with_pandoc([i \in 1..Len(refs) |-> <<refs[i]>>], shape)
    IN IF valid_references # {} /\ r.error = None
       THEN [valid |-> valid_references,
             reference_cache |-> DictUpdate(ref_cache, r.reference_cache),
             calls |-> 1,
             error |-> None]
       ELSE [valid |-> valid_references,
             reference_cache |-> ref_cache,
             calls |-> IF valid_references # {} THEN 1 ELSE 0,
             error |-> IF valid_references # {} THEN r.error ELSE None]

(***************************************************************************)
(* The citation grammar (src/src/mkdocs_bibtex/citation.py).  A string is   *)
(* a sequence of characters; each regular expression is modelled by what   *)
(* it matches on the characters the sources are written with.              *)
(***************************************************************************)
\* The number of segments a source text is put together from, and the
\* number of fragments of a citation list.
MaxSegments == 4
MaxFragments == 2

\* \w, \s, [\w-], [\w:-], [a-zA-Z0-9._%+-], [a-zA-Z0-9.-] and [a-zA-Z] on
\* the characters of the sources.
WordChars == {"a", "b", "c", "e", "m", "p", "s", "u", "x"}
IsSpace(c) == c = " "
KeyChar(c) == c \in WordChars \cup {"-"}
InlineKeyChar(c) == c \in WordChars \cup {":", "-"}
EmailLocalChar(c) == c \in WordChars \cup {".", "-"}
EmailDomainChar(c) == c \in WordChars \cup {".", "-"}
Letter(c) == c \in WordChars

\* The least element of a set of positions, 0 for the empty set.
FirstIndex(S) == IF S = {} THEN 0 ELSE CHOOSE i \in S : \A j \in S : i <= j
\* The greatest element of a set of positions, 0 for the empty set.
LastIndex(S) == IF S = {} THEN 0 ELSE CHOOSE i \in S : \A j \in S : j <= i

\* str.find from position `from': the first position of character c.
Find(str, c, from) == FirstIndex({i \in from..Len(str) : str[i] = c})

\* str.split(";")
RECURSIVE Split(_)
Split(str) ==
    LET i == Find(str, ";", 1)
    IN IF i = 0 THEN <<str>>
       ELSE <<SubSeq(str, 1, i - 1)>> \o Split(SubSeq(str, i + 1, Len(str)))

\* EMAIL_REGEX.match(str) is not None: a local part from the start of the
\* string up to its first "@", then a domain, a dot and two letters.
email_match(str) ==
    LET at == Find(str, "@", 1)
    IN /\ at >= 2
       /\ \A i \in 1..(at - 1) : EmailLocalChar(str[i])
       /\ \E dot \in (at + 2)..(Len(str) - 2) :
              /\ \A i \in (at + 1)..(dot - 1) : EmailDomainChar(str[i])
              /\ str[dot] = "."
              /\ Letter(str[dot + 1])
              /\ Letter(str[dot + 2])

\* CITATION_REGEX.match(fragment) on a fragment without ";": the groups of
\* the match, or matched = FALSE.  The prefix cannot hold an "@", so the
\* "@" of the match is the first one; the lazy prefix ends where only
\* whitespace is left before it; the key is the longest run of key
\* characters; the suffix is what follows the comma and its whitespace, of
\* which it keeps one character when nothing else is left.
citation_match(fragment) ==
    LET n == Len(fragment)
        at == Find(fragment, "@", 1)
        key_end == LastIndex({e \in (at + 1)..n :
                                 \A i \in (at + 1)..e : KeyChar(fragment[i])})
        prefix_end == FirstIndex({l \in 0..(at - 1) :
                                     \A i \in (l + 1)..(at - 1) :
                                         IsSpace(fragment[i])})
        rest == SubSeq(fragment, key_end + 2, n)
        spaces == LastIndex({w \in 1..Len(rest) :
                                \A i \in 1..w : IsSpace(rest[i])})
        has_suffix == /\ key_end + 2 <= n
                      /\ fragment[key_end + 1] = ","
    IN IF at = 0 \/ key_end = 0
       THEN [matched |-> FALSE]
       ELSE [matched |-> TRUE,
             prefix |-> SubSeq(fragment, 1, prefix_end),
             key |-> SubSeq(fragment, at + 1, key_end),
             suffix |-> IF ~has_suffix THEN <<>>
                        ELSE IF spaces = Len(rest)
                        THEN SubSeq(rest, Len(rest), Len(rest))
                        ELSE SubSeq(rest, spaces + 1, Len(rest))]

\* Citation(key, prefix, suffix)
Citation(key, prefix, suffix) ==
    [key |-> key, prefix |-> prefix, suffix |-> suffix]

\* Citation.from_markdown
Citation_from_markdown(str) ==
    LET pos_citations ==
            SelectSeq(Split(str), LAMBDA f : ~email_match(f))
        matches == SelectSeq([i \in 1..Len(pos_citations) |->
                                 citation_match(pos_citations[i])],
                             LAMBDA m : m.matched)
    IN [i \in 1..Len(matches) |->
           Citation(matches[i].key, matches[i].prefix, matches[i].suffix)]

\* CitationBlock(citations, raw, inline).  `span' is not a field of the
\* class: it records where in the source the match of the block began and
\* ended.
CitationBlock(citations, raw, inline, span) ==
    [citations |-> citations, raw |-> raw, inline |-> inline, span |-> span]

\* Citation.__str__: the prefix, "@key" and the suffix, those that are not
\* empty, with one space between them.
Citation_str(citation) ==
    (IF citation.prefix = <<>> THEN <<>> ELSE citation.prefix \o <<" ">>)
    \o <<"@">> \o citation.key
    \o (IF citation.suffix = <<>> THEN <<>> ELSE <<" ">> \o citation.suffix)

\* "; ".join(str(citation) for citation in citations)
RECURSIVE join_citations(_)
join_citations(citations) ==
    IF citations = <<>> THEN <<>>
    ELSE IF Len(citations) = 1 THEN Citation_str(Head(citations))
    ELSE Citation_str(Head(citations)) \o <<";", " ">>
         \o join_citations(Tail(citations))

\* CitationBlock.__str__: the raw text in brackets, and for a block without
\* raw text its citations written out in brackets.
CitationBlock_str(block) ==
    IF block.raw # <<>> THEN <<"[">> \o block.raw \o <<"]">>
    ELSE <<"[">> \o join_citations(block.citations) \o <<"]">>

\* CitationBlock._is_valid
is_valid(block) ==
    /\ Len(block.citations) # 0
    /\ ~(block.inline /\ Len(block.citations) > 1)

\* CITATION_BLOCK_REGEX.finditer(str): from each "[" to the first "]" after
\* it, the matches not overlapping.
RECURSIVE block_finditer(_, _)
block_finditer(str, from) ==
    LET open == Find(str, "[", from)
        close == IF open = 0 THEN 0 ELSE Find(str, "]", open + 1)
    IN IF close = 0 THEN <<>>
       ELSE <<[start |-> open, end |-> close]>>
            \o block_finditer(str, close + 1)

\* A string with the position each character has in the source.
Positioned(str) == [i \in 1..Len(str) |-> [ch |-> str[i], pos |-> i]]
Unpositioned(w) == [i \in 1..Len(w) |-> w[i].ch]

\* str.replace(old, ""): the occurrences of old, left to right, are
\* removed.
RECURSIVE remove_all(_, _)
remove_all(w, old) ==
    IF Len(w) < Len(old) THEN w
    ELSE IF Unpositioned(SubSeq(w, 1, Len(old))) = old
    THEN remove_all(SubSeq(w, Len(old) + 1, Len(w)), old)
    ELSE <<Head(w)>> \o remove_all(Tail(w), old)

\* markdown_without_blocks: the text of every bracketed block, valid or
\* not, is removed from the working copy, block after block.
RECURSIVE without_blocks(_, _)
without_blocks(w, citation_blocks) ==
    IF citation_blocks = <<>> THEN w
    ELSE without_blocks(remove_all(w, CitationBlock_str(Head(citation_blocks))),
                        Tail(citation_blocks))

\* INLINE_CITATION_REGEX.finditer(w): an "@" not preceded by "[", the
\* longest run of key characters after it that is not followed by word
\* characters or whitespace and then "]".
RECURSIVE inline_finditer(_, _)
inline_finditer(w, from) ==
    LET n == Len(w)
        Blocked(e) ==
            LET q == FirstIndex({i \in (e + 1)..n :
                                    ~(w[i].ch \in WordChars \/ IsSpace(w[i].ch))})
            IN q # 0 /\ w[q].ch = "]"
        key_end == LastIndex({e \in (from + 1)..n :
                                 /\ \A i \in (from + 1)..e :
                                        InlineKeyChar(w[i].ch)
                                 /\ ~Blocked(e)})
    IN IF from > n THEN <<>>
       ELSE IF /\ w[from].ch = "@"
               /\ (from = 1 \/ w[from - 1].ch # "[")
               /\ key_end # 0
       THEN <<CitationBlock(
                  <<Citation(Unpositioned(SubSeq(w, from + 1, key_end)),
                             <<>>, <<>>)>>,
                  <<>>, TRUE,
                  [start |-> w[from].pos, end |-> w[key_end].pos])>>
            \o inline_finditer(w, key_end + 1)
       ELSE inline_finditer(w, from + 1)

\* The bracketed blocks CitationBlock.from_markdown collects.
bracketed_blocks(str) ==
    LET spans == block_finditer(str, 1)
    IN [k \in 1..Len(spans) |->
           LET raw == SubSeq(str, spans[k].start + 1, spans[k].end - 1)
           IN CitationBlock(Citation_from_markdown(raw), raw, FALSE,
                            spans[k])]

\* A faulty variant of CitationBlock.from_markdown: the bare citations are
\* looked for in the source as it is, the bracketed blocks not removed.
CitationBlock_from_markdown_KeepsBlocks(str) ==
    LET citation_blocks == bracketed_blocks(str)
        inline_citations == inline_finditer(Positioned(str), 1)
    IN SelectSeq(citation_blocks \o inline_citations, is_valid)

\* CitationBlock.from_markdown
CitationBlock_from_markdown(str) ==
    LET citation_blocks == bracketed_blocks(str)
        markdown_without_blocks ==
            without_blocks(Positioned(str), citation_blocks)
        inline_citations == inline_finditer(markdown_without_blocks, 1)
    IN SelectSeq(citation_blocks \o inline_citations, is_valid)

\* The pieces the source texts are put together from: "@a", " ", "[@a]",
\* "[s @b, p", "]", "[x]", "[@a; s @b, p ]", "u@e.cm" and "@a:b".
Segments ==
    {<<"@", "a">>,
     <<" ">>,
     <<"[", "@", "a", "]">>,
     <<"[", "s", " ", "@", "b", ",", " ", "p">>,
     <<"]">>,
     <<"[", "x", "]">>,
     <<"[", "@", "a", ";", " ", "s", " ", "@", "b", ",", " ", "p", " ", "]">>,
     <<"u", "@", "e", ".", "c", "m">>,
     <<"@", "a", ":", "b">>}

\* The citation lists: fragments "[s] @a[, p]" with and without whitespace
\* at either end, joined by ";".
Fragments ==
    {prefix \o gap \o <<"@", "a">> \o suffix :
        prefix \in {<<>>, <<"s">>, <<" ", "s">>},
        gap \in {<<>>, <<" ">>},
        suffix \in {<<>>, <<",", "p">>, <<",", " ", "p", " ">>}}

RECURSIVE Join(_, _)
Join(strs, sep) ==
    IF strs = <<>> THEN <<>>
    ELSE IF Len(strs) = 1 THEN Head(strs)
    ELSE Head(strs) \o sep \o Join(Tail(strs), sep)

\* The texts given to the two parsers.
Sources ==
    {Concat(segs) : segs \in SeqsUpTo(Segments, MaxSegments)}
    \cup {Join(fs, <<";">>) : fs \in SeqsUpTo(Fragments, MaxFragments)}

(***************************************************************************)
(* The texts the two registries return (registry.py).                      *)
(***************************************************************************)
\* The number of citations of a block given to SimpleRegistry.inline_text.
MaxCitations == 2

\* An entry whose rendered text holds escaped parentheses, a line break and
\* an escaped full stop: "\(x\)", a line break, "\.".
KeyP == <<"p">>
SimpleBibEntries == <<KeyT, KeyT2, KeyP>>

\* style.format_entry("", entry).text.render(backend)
render_entry(key) ==
    IF key = KeyP
    THEN <<"\\", "(", "x", "\\", ")", "LF", "\\", ".">>
    ELSE EntryText(key)

\* str.replace(old, new) on a sequence of characters.
RECURSIVE str_replace(_, _, _)
str_replace(str, old, new) ==
    IF Len(str) < Len(old) THEN str
    ELSE IF SubSeq(str, 1, Len(old)) = old
    THEN new \o str_replace(SubSeq(str, Len(old) + 1, Len(str)), old, new)
    ELSE <<Head(str)>> \o str_replace(Tail(str), old, new)

KeyError == "KeyError"

\* SimpleRegistry.reference_text: the entry is looked up, rendered and
\* cleaned; nothing is stored.
SimpleRegistry_reference_text(key, bib) ==
    IF ~InBib(key, bib)
    THEN [text |-> <<>>, error |-> KeyError]
    ELSE LET entry_text == str_replace(render_entry(key), <<"LF">>, <<" ">>)
         IN [text |-> str_replace(
                          str_replace(
                              str_replace(entry_text, <<"\\", "(">>, <<"(">>),
                              <<"\\", ")">>, <<")">>),
                          <<"\\", ".">>, <<".">>),
             error |-> None]

\* A faulty variant of PandocRegistry.reference_text: the text is taken out
\* of the cache (dict.pop) when it is returned.
PandocRegistry_reference_text_Pops(key, ref_cache) ==
    IF key \notin DOMAIN ref_cache
    THEN [text |-> <<>>, error |-> KeyError, reference_cache |-> ref_cache]
    ELSE [text |-> ref_cache[key], error |-> None,
          reference_cache |->
              [k \in DOMAIN ref_cache \ {key} |-> ref_cache[k]]]

\* PandocRegistry.reference_text: self._reference_cache[citation.key]; the
\* cache is read and stays as it is.
PandocRegistry_reference_text(key, ref_cache) ==
    IF key \notin DOMAIN ref_cache
    THEN [text |-> <<>>, error |-> KeyError, reference_cache |-> ref_cache]
    ELSE [text |-> ref_cache[key], error |-> None,
          reference_cache |-> ref_cache]

\* The footnote templates the registries are built with, "{key}" and
\* "r-{key}": a template is its characters, the placeholder being one.
FootnoteFormats == {<<"{key}">>, <<"r", "-", "{key}">>}

\* footnote_format.format(key=key)
format_key(footnote_format, key) ==
    Concat([i \in 1..Len(footnote_format) |->
               IF footnote_format[i] = "{key}" THEN key
               ELSE <<footnote_format[i]>>])

\* f"[^{key}]"
FootnoteMark(label) == <<"[", "^">> \o label \o <<"]">>

\* A faulty variant of SimpleRegistry.inline_text: the keys are not looked
\* up in the bibliography.
SimpleRegistry_inline_text_KeepsUnknown(citation_block, bib, footnote_format) ==
    LET keys == [i \in 1..Len(citation_block.citations) |->
                    format_key(footnote_format,
                               citation_block.citations[i].key)]
    IN Concat([i \in 1..Len(keys) |-> FootnoteMark(keys[i])])

\* SimpleRegistry.inline_text
SimpleRegistry_inline_text(citation_block, bib, footnote_format) ==
    LET known == SelectSeq(citation_block.citations,
                           LAMBDA citation : InBib(citation.key, bib))
        keys == [i \in 1..Len(known) |->
                    format_key(footnote_format, known[i].key)]
    IN Concat([i \in 1..Len(keys) |-> FootnoteMark(keys[i])])

\* A faulty variant of PandocRegistry.inline_text: the inline citation is
\* returned under every style.
PandocRegistry_inline_text_AnyStyle(citation_block, is_inl, inl_cache, ref_cache, footnote_format) ==
    LET rendered == SelectSeq(citation_block,
                              LAMBDA key : key \in DOMAIN ref_cache)
        footnotes == Join([i \in 1..Len(rendered) |->
                              FootnoteMark(format_key(footnote_format,
                                                      rendered[i]))],
                          <<" ">>)
    IN [inline_text |-> IF citation_block \in DOMAIN inl_cache
                        THEN inl_cache[citation_block]
                        ELSE citation_block,
        footnotes |-> footnotes]

\* PandocRegistry.inline_text: the footnote marks of the keys that have a
\* reference text, with a space between them, and before them, under an
\* inline style, what the inline cache holds for the block, or the block
\* itself.  The result is the two parts, written one after the other.
PandocRegistry_inline_text(citation_block, is_inl, inl_cache, ref_cache, footnote_format) ==
    LET rendered == SelectSeq(citation_block,
                              LAMBDA key : key \in DOMAIN ref_cache)
        footnotes == Join([i \in 1..Len(rendered) |->
                              FootnoteMark(format_key(footnote_format,
                                                      rendered[i]))],
                          <<" ">>)
    IN IF is_inl
       THEN [inline_text |-> IF citation_block \in DOMAIN inl_cache
                             THEN inl_cache[citation_block]
                             ELSE citation_block,
             footnotes |-> footnotes]
       ELSE [inline_text |-> <<>>, footnotes |-> footnotes]

\* The CSL files a PandocRegistry is built with: what citation-format the
\* file declares, and whether its bytes decode under csl_file_encoding.
CslFiles ==
    [citation_format : {"author-date", "numeric", "note"},
     decodes : BOOLEAN]

\* A SimpleRegistry has no CSL file.
NoCsl == [citation_format |-> None, decodes |-> FALSE]

\* PandocRegistry._check_csl_type (a PandocRegistry always has a CSL file)
check_csl_type(csl_file) ==
    IF ~csl_file.decodes THEN FALSE
    ELSE csl_file.citation_format = "author-date"

\* The blocks given to SimpleRegistry.inline_text: citations of known and
\* unknown keys, with and without prefix and suffix.
SimpleCitations ==
    {Citation(key, prefix, suffix) :
        key \in {KeyT, KeyT2, KeyZ},
        prefix \in {<<>>, <<"s">>},
        suffix \in {<<>>, <<"p">>}}

SimpleBlocks ==
    {CitationBlock(citations, <<>>, FALSE, [start |-> 0, end |-> 0]) :
        citations \in SeqsUpTo(SimpleCitations, MaxCitations) \ {<<>>}}

(***************************************************************************)
(* The functions on citation quads (src/mkdocs_bibtex/utils.py).  A quad   *)
(* is <<cite block, key, footnote label, reference text>>.                 *)
(***************************************************************************)
\* The number of cite blocks the quads of a document are made for.
MaxQuadBlocks == 3

\* str(n) for the numbers a list of quads can reach.
int_str(n) ==
    LET digit == <<"1", "2", "3", "4", "5", "6", "7", "8", "9">>
    IN IF n < 10 THEN <<digit[n]>>
       ELSE <<digit[n \div 10]>>
            \o (IF n % 10 = 0 THEN <<"0">> ELSE <<digit[n % 10]>>)

\* str.isnumeric
isnumeric(label) ==
    /\ label # <<>>
    /\ \A i \in 1..Len(label) :
           label[i] \in {"0", "1", "2", "3", "4", "5", "6", "7", "8", "9"}

\* itertools.groupby(citation_quads, key=lambda x: x[0]): runs of quads of
\* the same cite block, one after the other.
RECURSIVE groupby(_)
groupby(quads) ==
    IF quads = <<>> THEN <<>>
    ELSE LET rest == groupby(Tail(quads))
         IN IF rest # <<>> /\ Head(rest)[1][1] = Head(quads)[1]
            THEN <<<<Head(quads)>> \o Head(rest)>> \o Tail(rest)
            ELSE <<<<Head(quads)>>>> \o rest

\* The loop of insert_citation_keys over the groups: the cite block of a
\* group is replaced, wherever it stands, by the marks "[^label]" of the
\* quads of the group.
RECURSIVE replace_groups(_, _)
replace_groups(grouped_quads, markdown) ==
    IF grouped_quads = <<>> THEN markdown
    ELSE LET quad_group == Head(grouped_quads)
             full_citation == quad_group[1][1]
             replacement_citation ==
                 Tok("footnotes",
                     [i \in 1..Len(quad_group) |-> quad_group[i][2]],
                     [i \in 1..Len(quad_group) |->
                         [key |-> quad_group[i][2],
                          label |-> quad_group[i][3]]])
         IN replace_groups(Tail(grouped_quads),
                           Replace(markdown, full_citation,
                                   <<replacement_citation>>))

\* utils.insert_citation_keys: when every label is a number the quads are
\* numbered anew, each by its place in the list.
insert_citation_keys(citation_quads, markdown) ==
    LET renumbered ==
            IF \A i \in 1..Len(citation_quads) :
                   isnumeric(citation_quads[i][3])
            THEN [n \in 1..Len(citation_quads) |->
                     <<citation_quads[n][1], citation_quads[n][2], int_str(n),
                       citation_quads[n][3]>>]
            ELSE citation_quads
    IN replace_groups(groupby(renumbered), markdown)

\* `new_bib[label] = citation' on an insertion-ordered dict of rows.
RowPut(rows, label, citation) ==
    IF \E i \in 1..Len(rows) : rows[i].label = label
    THEN [i \in 1..Len(rows) |->
             IF rows[i].label = label
             THEN [label |-> label, citation |-> citation] ELSE rows[i]]
    ELSE Append(rows, [label |-> label, citation |-> citation])

\* utils.format_bibliography: one row "[^label]: citation" per label.
RECURSIVE format_bibliography(_, _)
format_bibliography(citation_quads, new_bib) ==
    IF citation_quads = <<>> THEN new_bib
    ELSE format_bibliography(Tail(citation_quads),
             RowPut(new_bib, Head(citation_quads)[3],
                    Head(citation_quads)[4]))

\* The cite blocks of the documents the quads are made for: "[@t]", "[@t2]"
\* and "[@t; @t2]".
QuadBlocks == {Cite(<<KeyT>>), Cite(<<KeyT2>>), Cite(<<KeyT, KeyT2>>)}

\* The quads of a document, one per cite block and key, in document order:
\* a key has one label wherever it is cited, its number in order of first
\* use ("1", "2") or its own name, and one reference text.
QuadsOf(blocks, numbered) ==
    LET keys == Concat([i \in 1..Len(blocks) |-> blocks[i].keys])
        Number(key) ==
            Cardinality({keys[j] : j \in
                            1..FirstIndex({i \in 1..Len(keys) :
                                              keys[i] = key})})
    IN Concat([i \in 1..Len(blocks) |->
                  [j \in 1..Len(blocks[i].keys) |->
                      <<blocks[i], blocks[i].keys[j],
                        IF numbered THEN int_str(Number(blocks[i].keys[j]))
                        ELSE blocks[i].keys[j],
                        "simple">>]])

(***************************************************************************)
(* The state of the plugin object and of the registry, and their           *)
(* operations.                                                             *)
(***************************************************************************)
VARIABLES
    config,                 \* self.config, as loaded by mkdocs
    bib_data,               \* self.bib_data.entries, <<>> before on_config
    last_configured,        \* whether self.last_configured is set
    global_citation_index,  \* self.global_citation_index
    global_mapping,         \* self.global_mapping
    all_references,         \* self.all_references (cite_style plugin)
    error,                  \* the exception the last hook raised, if any
    markdown,               \* the document the last hook was given, if any
    output,                 \* the document the last hook returned, if any
    rerun,                  \* the last two hooks processed the same document
    prev_output,            \* on a rerun, what the hook before returned
    engine_calls,           \* calls of pandoc made by the last hook
    last_op,                \* the hook that ran last
    is_inline,              \* PandocRegistry._is_inline
    inline_cache,           \* PandocRegistry._inline_cache
    reference_cache,        \* PandocRegistry._reference_cache
    call_args,              \* the argument of the last registry call
    validated_blocks,       \* blocks given to validate_citation_blocks so far
    validated_refs,         \* keys given to validate_inline_references so far
    pandoc_output,          \* what pandoc's output looked like in the last call
    pandoc_version,         \* pypandoc.get_pandoc_version(), as a tuple
    bib_files,              \* the bib files on disk: st_mtime and entries
    clock                   \* time.time()

page_vars == <<config, bib_data, last_configured, global_citation_index,
               global_mapping, all_references, markdown, output, rerun,
               prev_output>>

plugin_vars == <<page_vars, error>>

registry_vars == <<is_inline, inline_cache, reference_cache, call_args,
                   validated_blocks, validated_refs, pandoc_output>>

env_vars == <<pandoc_version, bib_files, clock>>

vars == <<plugin_vars, registry_vars, env_vars, engine_calls, last_op>>

\* The bib files are not written to while the plugin runs: the file system
\* and the clock are left out.
StaticBibFiles ==
    /\ bib_files = <<>>
    /\ clock = 0

\* No PandocRegistry was constructed.
NoRegistry ==
    /\ is_inline = FALSE
    /\ inline_cache = EmptyCache
    /\ reference_cache = EmptyCache
    /\ call_args = <<>>
    /\ validated_blocks = {}
    /\ validated_refs = {}
    /\ pandoc_output = None

Init ==
    /\ config \in Configs \cup AllBrokenConfigs \cup LegacyConfigs
    /\ error = None
    /\ bib_data = <<>>
    /\ all_references = <<>>
    /\ last_configured = FALSE
    /\ global_citation_index = <<>>
    /\ global_mapping = <<>>
    /\ markdown = <<>>
    /\ output = <<>>
    /\ rerun = FALSE
    /\ prev_output = <<>>
    /\ engine_calls = 0
    /\ last_op = "init"
    /\ NoRegistry
    /\ pandoc_version = CurrentPandoc
    /\ StaticBibFiles

\* No document was processed by this hook.
NoDocument ==
    /\ markdown' = <<>>
    /\ output' = <<>>
    /\ rerun' = FALSE
    /\ prev_output' = <<>>

\* BibTexPlugin.on_config with a valid configuration: the first call loads
\* the bibliography.
OnConfig ==
    /\ config.plugin = "indexed"
    /\ LET r == on_config(config, bib_data, last_configured)
       IN /\ bib_data' = r.bib_data
          /\ last_configured' = r.last_configured
          /\ error' = r.error
    /\ engine_calls' = 0
    /\ last_op' = "on_config"
    /\ NoDocument
    /\ UNCHANGED <<config, global_citation_index, global_mapping,
                   all_references>>
    /\ UNCHANGED <<registry_vars, env_vars>>

\* mkdocs reloads mkdocs.yml between two builds (the plugin object is kept,
\* on_startup) and the new configuration is invalid.  The next hook of
\* the plugin is on_config.
LoadConfig(c) ==
    /\ config \in Configs
    /\ last_configured
    /\ markdown = <<>>
    /\ c \in BrokenConfigs(config)
    /\ config' = c
    /\ last_op' = "load_config"
    /\ UNCHANGED <<bib_data, last_configured, global_citation_index,
                   global_mapping, all_references, markdown, output, rerun,
                   prev_output, error, engine_calls>>
    /\ UNCHANGED <<registry_vars, env_vars>>

\* The cite blocks on_files collects from the documentation pages.
SiteCiteKeys(files) ==
    Concat([i \in 1..Len(files) |->
               IF files[i].is_documentation_page
               THEN find_cite_blocks(files[i].content_string)
               ELSE <<>>])

\* BibTexPlugin.on_files
OnFiles(files) ==
    /\ config.plugin = "indexed"
    /\ last_configured
    /\ config \in Configs
    /\ error' = None
    /\ IF config.bib_type = "global"
       THEN LET r == generate_index(SiteCiteKeys(files), bib_data, config)
            IN /\ global_citation_index' = r.index
               /\ global_mapping' = r.mapping
               /\ engine_calls' = r.calls
       ELSE /\ UNCHANGED <<global_citation_index, global_mapping>>
            /\ engine_calls' = 0
    /\ last_op' = "on_files"
    /\ NoDocument
    /\ UNCHANGED <<config, bib_data, last_configured, all_references>>
    /\ UNCHANGED <<registry_vars, env_vars>>

\* BibTexPlugin.on_page_markdown
OnPageMarkdown(md) ==
    /\ config.plugin = "indexed"
    /\ last_configured
    /\ config \in Configs
    /\ error' = None
    /\ LET r == on_page_markdown(md, config, bib_data,
                                 global_citation_index, global_mapping)
       IN /\ output' = r.out
          /\ engine_calls' = r.calls
          /\ global_citation_index' = r.global_citation_index
          /\ global_mapping' = r.global_mapping
    /\ markdown' = md
    /\ rerun' = (last_op = "on_page_markdown" /\ markdown = md)
    /\ prev_output' = IF rerun' THEN output ELSE <<>>
    /\ last_op' = "on_page_markdown"
    /\ UNCHANGED <<config, bib_data, last_configured, all_references>>
    /\ UNCHANGED <<registry_vars, env_vars>>

\* BibTexPlugin.on_config of the cite_style plugin: every call loads the
\* bibliography.
LegacyOnConfig ==
    /\ config.plugin = "legacy"
    /\ error' = None
    /\ bib_data' = BibFileEntries
    /\ last_configured' = TRUE
    /\ engine_calls' = 0
    /\ last_op' = "on_config"
    /\ NoDocument
    /\ UNCHANGED <<config, global_citation_index, global_mapping,
                   all_references>>
    /\ UNCHANGED <<registry_vars, env_vars>>

\* BibTexPlugin.on_page_markdown of the cite_style plugin
LegacyOnPageMarkdown(md) ==
    /\ config.plugin = "legacy"
    /\ last_configured
    /\ error' = None
    /\ LET r == legacy_on_page_markdown(md, config, bib_data, all_references)
       IN /\ output' = r.out
          /\ all_references' = r.all_references
          /\ engine_calls' = r.calls
    /\ markdown' = md
    /\ rerun' = (last_op = "on_page_markdown" /\ markdown = md)
    /\ prev_output' = IF rerun' THEN output ELSE <<>>
    /\ last_op' = "on_page_markdown"
    /\ UNCHANGED <<config, bib_data, last_configured, global_citation_index,
                   global_mapping>>
    /\ UNCHANGED <<registry_vars, env_vars>>

Next ==
    \/ OnConfig
    \/ \E files \in FileLists : OnFiles(files)
    \/ \E md \in Docs : OnPageMarkdown(md)
    \/ LegacyOnConfig
    \/ \E md \in LegacyDocs : LegacyOnPageMarkdown(md)
    \/ \E c \in AllBrokenConfigs : LoadConfig(c)

Spec == Init /\ [][Next]_vars

(***************************************************************************)
(* The plugin with a citation index over a bib file whose entries hold      *)
(* backslashes.                                                            *)
(***************************************************************************)
\* "[@t]", "[@b]" and "[@l]".
BackslashCites == {Cite(<<KeyT>>), Cite(<<KeyB>>), Cite(<<KeyL>>)}

BackslashDocs == {body \o tail : body \in SeqsUpTo(BackslashCites, MaxCites),
                                 tail \in Tails}

InitBibliography ==
    /\ config \in {c \in Configs : c.cite_format # "inline"}
    /\ error = None
    /\ bib_data = BackslashBibEntries
    /\ all_references = <<>>
    /\ last_configured = TRUE
    /\ global_citation_index = <<>>
    /\ global_mapping = <<>>
    /\ markdown = <<>>
    /\ output = <<>>
    /\ rerun = FALSE
    /\ prev_output = <<>>
    /\ engine_calls = 0
    /\ last_op = "on_config"
    /\ NoRegistry
    /\ pandoc_version = CurrentPandoc
    /\ StaticBibFiles

NextBibliography ==
    \/ \E md \in BackslashDocs :
           OnFiles(<<File(TRUE, md)>>)
    \/ \E md \in BackslashDocs : OnPageMarkdown(md)

SpecBibliography == InitBibliography /\ [][NextBibliography]_vars

(***************************************************************************)
(* The plugin with a citation index over documents in which one cite block  *)
(* is written within another.                                              *)
(***************************************************************************)
NestedCites == {Cite(<<KeyT>>), Cite(<<KeyT2>>), NestedCite}

NestedDocs == {body \o tail : body \in SeqsUpTo(NestedCites, MaxCites),
                              tail \in Tails}

InitSubstitution ==
    /\ config \in {c \in Configs : c.cite_format # "inline"}
    /\ error = None
    /\ bib_data = BibFileEntries
    /\ all_references = <<>>
    /\ last_configured = TRUE
    /\ global_citation_index = <<>>
    /\ global_mapping = <<>>
    /\ markdown = <<>>
    /\ output = <<>>
    /\ rerun = FALSE
    /\ prev_output = <<>>
    /\ engine_calls = 0
    /\ last_op = "on_config"
    /\ NoRegistry
    /\ pandoc_version = CurrentPandoc
    /\ StaticBibFiles

NextSubstitution ==
    \/ \E md \in NestedDocs : OnFiles(<<File(TRUE, md)>>)
    \/ \E md \in NestedDocs : OnPageMarkdown(md)

SpecSubstitution == InitSubstitution /\ [][NextSubstitution]_vars

(***************************************************************************)
(* A PandocRegistry on its own: constructed over the test bibliography with *)
(* a CSL file of either kind, then given validate calls.                    *)
(***************************************************************************)
\* The plugin settings the registry is built from: a CSL file is given.
RegistryConfig ==
    CHOOSE c \in Configs :
        /\ c.csl_file # None
        /\ c.cite_format = "footnote"
        /\ c.bib_type = "per_page"
        /\ ~c.automatic_per_page

InitRegistry ==
    /\ config = RegistryConfig
    /\ error = None
    /\ bib_data = BibFileEntries
    /\ all_references = <<>>
    /\ last_configured = TRUE
    /\ global_citation_index = <<>>
    /\ global_mapping = <<>>
    /\ markdown = <<>>
    /\ output = <<>>
    /\ rerun = FALSE
    /\ prev_output = <<>>
    /\ engine_calls = 0
    /\ last_op = "init"
    /\ is_inline \in BOOLEAN
    /\ inline_cache = EmptyCache
    /\ reference_cache = EmptyCache
    /\ call_args = <<>>
    /\ validated_blocks = {}
    /\ validated_refs = {}
    /\ pandoc_output = None
    /\ pandoc_version = CurrentPandoc
    /\ StaticBibFiles

\* PandocRegistry.validate_citation_blocks
ValidateCitationBlocks(citation_blocks, shape) ==
    /\ LET r == validate_citation_blocks(citation_blocks, is_inline,
                                         inline_cache, reference_cache,
                                         shape)
       IN /\ inline_cache' = r.inline_cache
          /\ reference_cache' = r.reference_cache
          /\ engine_calls' = r.calls
          /\ error' = r.error
          /\ pandoc_output' = IF r.calls > 0 THEN shape ELSE None
    /\ call_args' = citation_blocks
    /\ validated_blocks' = validated_blocks \cup SeqToSet(citation_blocks)
    /\ last_op' = "validate_citation_blocks"
    /\ UNCHANGED <<is_inline, validated_refs, page_vars, env_vars>>

\* PandocRegistry.validate_inline_references
ValidateInlineReferences(inline_references, shape) ==
    /\ LET r == validate_inline_references(inline_references, reference_cache,
                                           shape)
       IN /\ reference_cache' = r.reference_cache
          /\ engine_calls' = r.calls
          /\ error' = r.error
          /\ pandoc_output' = IF r.calls > 0 THEN shape ELSE None
    /\ call_args' = inline_references
    /\ validated_refs' = validated_refs \cup SeqToSet(inline_references)
    /\ last_op' = "validate_inline_references"
    /\ UNCHANGED <<is_inline, inline_cache, validated_blocks, page_vars,
                   env_vars>>

\* pandoc answers every call in the layout the parser expects.
NextRegistry ==
    \/ \E citation_blocks \in BlockLists :
           ValidateCitationBlocks(citation_blocks, WellFormed)
    \/ \E inline_references \in ReferenceLists :
           ValidateInlineReferences(inline_references, WellFormed)

SpecRegistry == InitRegistry /\ [][NextRegistry]_vars

\* The same registry with a pandoc whose output may have any layout; the
\* calls are given one block or one key each.
NextPandocOutput ==
    \/ \E b \in RegistryBlocks, shape \in OutputShapes :
           ValidateCitationBlocks(<<b>>, shape)
    \/ \E k \in RegistryKeys, shape \in OutputShapes :
           ValidateInlineReferences(<<k>>, shape)

SpecPandocOutput == InitRegistry /\ [][NextPandocOutput]_vars

(***************************************************************************)
(* The code that runs pandoc, under any version of pandoc: the construction *)
(* of a PandocRegistry and the functions of utils.py that format with a CSL *)
(* file.                                                                   *)
(***************************************************************************)
\* Settings with cite_format inline and a CSL file.
InlineConfig ==
    CHOOSE c \in Configs :
        /\ c.cite_format = "inline"
        /\ c.bib_type = "per_page"
        /\ ~c.automatic_per_page

InitPandoc ==
    /\ config = InlineConfig
    /\ error = None
    /\ bib_data = BibFileEntries
    /\ all_references = <<>>
    /\ last_configured = TRUE
    /\ global_citation_index = <<>>
    /\ global_mapping = <<>>
    /\ markdown = <<>>
    /\ output = <<>>
    /\ rerun = FALSE
    /\ prev_output = <<>>
    /\ engine_calls = 0
    /\ last_op = "init"
    /\ NoRegistry
    /\ pandoc_version \in PandocVersions
    /\ StaticBibFiles

\* PandocRegistry(bib_files, csl_file, csl_file_encoding)
NewPandocRegistry(inl) ==
    /\ error' = pandoc_registry_init(pandoc_version)
    /\ is_inline' = IF error' = None THEN inl ELSE FALSE
    /\ inline_cache' = EmptyCache
    /\ reference_cache' = EmptyCache
    /\ call_args' = <<>>
    /\ validated_blocks' = {}
    /\ validated_refs' = {}
    /\ pandoc_output' = None
    /\ engine_calls' = 0
    /\ last_op' = "PandocRegistry"
    /\ NoDocument
    /\ UNCHANGED <<config, bib_data, last_configured, global_citation_index,
                   global_mapping, all_references, env_vars>>

\* utils.insert_citation_keys_inline on the index and the mapping of a
\* document.
InsertCitationKeysInline(md) ==
    /\ LET g == generate_index(find_cite_blocks(md), bib_data, config)
           r == insert_citation_keys_inline(g.index, g.mapping,
                    [out |-> md, calls |-> 0], config.csl_file, bib_data,
                    pandoc_version)
       IN /\ output' = r.out
          /\ error' = r.error
          /\ engine_calls' = r.calls
    /\ markdown' = md
    /\ rerun' = FALSE
    /\ prev_output' = <<>>
    /\ last_op' = "insert_citation_keys_inline"
    /\ UNCHANGED <<config, bib_data, last_configured, global_citation_index,
                   global_mapping, all_references, registry_vars, env_vars>>

\* utils.format_pandoc on an entry of the bibliography.
FormatPandoc(key) ==
    /\ InBib(key, bib_data)
    /\ output' = <<format_pandoc(key, config.csl_file, pandoc_version)>>
    /\ error' = None
    /\ engine_calls' = 1
    /\ markdown' = <<>>
    /\ rerun' = FALSE
    /\ prev_output' = <<>>
    /\ last_op' = "format_pandoc"
    /\ UNCHANGED <<config, bib_data, last_configured, global_citation_index,
                   global_mapping, all_references, registry_vars, env_vars>>

NextPandoc ==
    \/ \E inl \in BOOLEAN : NewPandocRegistry(inl)
    \/ \E md \in Docs : InsertCitationKeysInline(md)
    \/ \E key \in SeqToSet(BibFileEntries) : FormatPandoc(key)

SpecPandoc == InitPandoc /\ [][NextPandoc]_vars

(***************************************************************************)
(* The two parsers of citation.py on a source text.                         *)
(***************************************************************************)
InitCitation ==
    /\ config = RegistryConfig
    /\ error = None
    /\ bib_data = BibFileEntries
    /\ all_references = <<>>
    /\ last_configured = TRUE
    /\ global_citation_index = <<>>
    /\ global_mapping = <<>>
    /\ markdown \in Sources
    /\ output = <<>>
    /\ rerun = FALSE
    /\ prev_output = <<>>
    /\ engine_calls = 0
    /\ last_op = "init"
    /\ NoRegistry
    /\ pandoc_version = CurrentPandoc
    /\ StaticBibFiles

\* Citation.from_markdown(markdown)
CitationFromMarkdown ==
    /\ output' = Citation_from_markdown(markdown)
    /\ last_op' = "Citation.from_markdown"
    /\ UNCHANGED <<config, bib_data, last_configured, global_citation_index,
                   global_mapping, all_references, markdown, rerun,
                   prev_output, error, engine_calls>>
    /\ UNCHANGED <<registry_vars, env_vars>>

\* CitationBlock.from_markdown(markdown)
CitationBlockFromMarkdown ==
    /\ output' = CitationBlock_from_markdown(markdown)
    /\ last_op' = "CitationBlock.from_markdown"
    /\ UNCHANGED <<config, bib_data, last_configured, global_citation_index,
                   global_mapping, all_references, markdown, rerun,
                   prev_output, error, engine_calls>>
    /\ UNCHANGED <<registry_vars, env_vars>>

NextCitation ==
    \/ CitationFromMarkdown
    \/ CitationBlockFromMarkdown

SpecCitation == InitCitation /\ [][NextCitation]_vars

(***************************************************************************)
(* A registry of either class, asked for texts.                            *)
(***************************************************************************)
\* What a registry is built from: the class, the footnote template and, for
\* a PandocRegistry, the CSL file.
RegistrySettings ==
    {c \in [plugin : {"registry"},
            backend : {"simple", "pandoc"},
            footnote_format : FootnoteFormats,
            csl_file : CslFiles \cup {NoCsl}] :
        c.backend = "pandoc" <=> c.csl_file # NoCsl}

\* SimpleRegistry.__init__ and PandocRegistry.__init__
InitTexts ==
    /\ config \in RegistrySettings
    /\ error = None
    /\ bib_data = IF config.backend = "simple" THEN SimpleBibEntries
                  ELSE BibFileEntries
    /\ all_references = <<>>
    /\ last_configured = TRUE
    /\ global_citation_index = <<>>
    /\ global_mapping = <<>>
    /\ markdown = <<>>
    /\ output = <<>>
    /\ rerun = FALSE
    /\ prev_output = <<>>
    /\ engine_calls = 0
    /\ last_op = "init"
    /\ is_inline = IF config.backend = "pandoc"
                   THEN check_csl_type(config.csl_file)
                   ELSE FALSE
    /\ inline_cache = EmptyCache
    /\ reference_cache = EmptyCache
    /\ call_args = <<>>
    /\ validated_blocks = {}
    /\ validated_refs = {}
    /\ pandoc_output = None
    /\ pandoc_version = CurrentPandoc
    /\ StaticBibFiles

\* What a call that returns a text leaves as it was.
TextCallUnchanged ==
    UNCHANGED <<config, bib_data, last_configured, global_citation_index,
                global_mapping, all_references, markdown, engine_calls,
                is_inline, validated_blocks, validated_refs, pandoc_output,
                env_vars>>

\* The call is the second of two calls of op with the same argument.
Repeated(op, args) == last_op = op /\ call_args = args

\* SimpleRegistry.inline_text(citation_block)
SimpleInlineText(citation_block) ==
    /\ config.backend = "simple"
    /\ output' = SimpleRegistry_inline_text(citation_block, bib_data,
                                            config.footnote_format)
    /\ error' = None
    /\ rerun' = Repeated("SimpleRegistry.inline_text", citation_block)
    /\ prev_output' = output
    /\ call_args' = citation_block
    /\ last_op' = "SimpleRegistry.inline_text"
    /\ UNCHANGED <<inline_cache, reference_cache>>
    /\ TextCallUnchanged

\* SimpleRegistry.reference_text(citation)
SimpleReferenceText(key) ==
    /\ config.backend = "simple"
    /\ LET r == SimpleRegistry_reference_text(key, bib_data)
       IN /\ output' = r.text
          /\ error' = r.error
    /\ rerun' = Repeated("SimpleRegistry.reference_text", key)
    /\ prev_output' = output
    /\ call_args' = key
    /\ last_op' = "SimpleRegistry.reference_text"
    /\ UNCHANGED <<inline_cache, reference_cache>>
    /\ TextCallUnchanged

\* PandocRegistry.inline_text(citation_block)
PandocInlineText(citation_block) ==
    /\ config.backend = "pandoc"
    /\ output' = PandocRegistry_inline_text(citation_block, is_inline,
                                            inline_cache, reference_cache,
                                            config.footnote_format)
    /\ error' = None
    /\ rerun' = Repeated("PandocRegistry.inline_text", citation_block)
    /\ prev_output' = output
    /\ call_args' = citation_block
    /\ last_op' = "PandocRegistry.inline_text"
    /\ UNCHANGED <<inline_cache, reference_cache>>
    /\ TextCallUnchanged

\* PandocRegistry.reference_text(citation)
PandocReferenceText(key) ==
    /\ config.backend = "pandoc"
    /\ LET r == PandocRegistry_reference_text(key, reference_cache)
       IN /\ output' = r.text
          /\ error' = r.error
          /\ reference_cache' = r.reference_cache
    /\ rerun' = Repeated("PandocRegistry.reference_text", key)
    /\ prev_output' = output
    /\ call_args' = key
    /\ last_op' = "PandocRegistry.reference_text"
    /\ UNCHANGED inline_cache
    /\ TextCallUnchanged

\* PandocRegistry.validate_citation_blocks of one block, pandoc answering
\* in the layout the parser expects.
PandocValidate(citation_blocks) ==
    /\ config.backend = "pandoc"
    /\ ValidateCitationBlocks(citation_blocks, WellFormed)

NextTexts ==
    \/ \E citation_block \in SimpleBlocks : SimpleInlineText(citation_block)
    \/ \E key \in RegistryKeys \cup {KeyP} : SimpleReferenceText(key)
    \/ \E citation_block \in RegistryBlocks : PandocInlineText(citation_block)
    \/ \E key \in RegistryKeys : PandocReferenceText(key)
    \/ \E citation_block \in RegistryBlocks :
           PandocValidate(<<citation_block>>)

SpecTexts == InitTexts /\ [][NextTexts]_vars

(***************************************************************************)
(* The two functions on citation quads, given the quads of a document.     *)
(***************************************************************************)
InitQuads ==
    /\ config = [plugin |-> "quads"]
    /\ error = None
    /\ bib_data = BibFileEntries
    /\ all_references = <<>>
    /\ last_configured = TRUE
    /\ global_citation_index = <<>>
    /\ global_mapping = <<>>
    /\ markdown \in SeqsUpTo(QuadBlocks, MaxQuadBlocks)
    /\ \E numbered \in BOOLEAN : call_args = QuadsOf(markdown, numbered)
    /\ output = <<>>
    /\ rerun = FALSE
    /\ prev_output = <<>>
    /\ engine_calls = 0
    /\ last_op = "init"
    /\ is_inline = FALSE
    /\ inline_cache = EmptyCache
    /\ reference_cache = EmptyCache
    /\ validated_blocks = {}
    /\ validated_refs = {}
    /\ pandoc_output = None
    /\ pandoc_version = CurrentPandoc
    /\ StaticBibFiles

\* utils.insert_citation_keys(citation_quads, markdown)
InsertCitationKeys ==
    /\ config.plugin = "quads"
    /\ output' = insert_citation_keys(call_args, markdown)
    /\ last_op' = "insert_citation_keys"
    /\ UNCHANGED <<config, bib_data, last_configured, global_citation_index,
                   global_mapping, all_references, markdown, rerun,
                   prev_output, error, engine_calls>>
    /\ UNCHANGED <<registry_vars, env_vars>>

\* utils.format_bibliography(citation_quads)
FormatBibliography ==
    /\ config.plugin = "quads"
    /\ output' = format_bibliography(call_args, <<>>)
    /\ last_op' = "format_bibliography"
    /\ UNCHANGED <<config, bib_data, last_configured, global_citation_index,
                   global_mapping, all_references, markdown, rerun,
                   prev_output, error, engine_calls>>
    /\ UNCHANGED <<registry_vars, env_vars>>

NextQuads ==
    \/ InsertCitationKeys
    \/ FormatBibliography

SpecQuads == InitQuads /\ [][NextQuads]_vars

(***************************************************************************)
(* on_config and the bib files on disk.  mkdocs keeps the plugin object    *)
(* over rebuilds (on_startup) and calls on_config before each of them;     *)
(* between the calls the bib files and mkdocs.yml are edited.  Here        *)
(* last_configured is <<>> for None and <<t>> for the time t.              *)
(***************************************************************************)

\* The clock stops here.
MaxTime == 3

\* The bib files there can be, in the order rglob yields them.
BibFileNames == <<"a.bib", "b.bib">>

\* What a bib file can hold: the keys of its entries.
BibFileContents == {<<KeyT>>, <<KeyT, KeyT2>>, <<KeyU>>}

\* A file on disk.
BibFiles == [st_mtime : 0..MaxTime, entries : BibFileContents]

\* Configurations that differ in the source of the bibliography.
ReloadConfigs ==
    [plugin : {"reload"}, bib_file : {None, "a.bib", "b.bib"},
     bib_dir : {None, "refs"}]

\* The exception of Path.stat and parse_file for a file that is not there.
FileNotFoundError == "FileNotFoundError"

\* on_config, the list bibfiles: the configured file, or else the files
\* of the configured directory.
bibfiles(cfg, files) ==
    IF cfg.bib_file # None THEN <<cfg.bib_file>>
    ELSE SelectSeq(BibFileNames, LAMBDA f : f \in DOMAIN files)

\* dict.update on the entries, as the sequence of their keys.
RECURSIVE refs_update(_, _)
refs_update(refs, entries) ==
    IF entries = <<>> THEN refs
    ELSE refs_update(IF \E i \in 1..Len(refs) : refs[i] = Head(entries)
                     THEN refs ELSE Append(refs, Head(entries)),
                     Tail(entries))

\* BibTexPlugin.refresh_bib_data: the entries of all files, merged.
RECURSIVE refresh_bib_data(_, _, _)
refresh_bib_data(bibfile_list, files, refs) ==
    IF bibfile_list = <<>> THEN refs
    ELSE refresh_bib_data(Tail(bibfile_list), files,
                          refs_update(refs, files[Head(bibfile_list)].entries))

\* A faulty variant of on_config_reload: a file modified at the very time
\* of the last load counts as unchanged.
on_config_reload_OlderOrEqual(cfg, files, bib, last_conf, now) ==
    LET fs == bibfiles(cfg, files)
    IN IF cfg.bib_file = None /\ cfg.bib_dir = None
       THEN [bib_data |-> bib, last_configured |-> last_conf,
             error |-> ConfigurationError]
       ELSE IF \E i \in 1..Len(fs) : fs[i] \notin DOMAIN files
       THEN [bib_data |-> bib, last_configured |-> last_conf,
             error |-> FileNotFoundError]
       ELSE IF /\ last_conf # <<>>
               /\ \A i \in 1..Len(fs) :
                      files[fs[i]].st_mtime <= last_conf[1]
       THEN [bib_data |-> bib, last_configured |-> last_conf,
             error |-> None]
       ELSE [bib_data |-> refresh_bib_data(fs, files, <<>>),
             last_configured |-> <<now>>, error |-> None]

\* BibTexPlugin.on_config with the bib files as they are on disk at the
\* time `now': the bibliography is parsed unless every file is older than
\* the last load.  A file that is not there makes stat or parse_file raise.
on_config_reload(cfg, files, bib, last_conf, now) ==
    LET fs == bibfiles(cfg, files)
    IN IF cfg.bib_file = None /\ cfg.bib_dir = None
       THEN [bib_data |-> bib, last_configured |-> last_conf,
             error |-> ConfigurationError]
       ELSE IF \E i \in 1..Len(fs) : fs[i] \notin DOMAIN files
       THEN [bib_data |-> bib, last_configured |-> last_conf,
             error |-> FileNotFoundError]
       ELSE IF /\ last_conf # <<>>
               /\ \A i \in 1..Len(fs) :
                      files[fs[i]].st_mtime < last_conf[1]
       THEN [bib_data |-> bib, last_configured |-> last_conf,
             error |-> None]
       ELSE [bib_data |-> refresh_bib_data(fs, files, <<>>),
             last_configured |-> <<now>>, error |-> None]

InitReload ==
    /\ config \in ReloadConfigs
    /\ error = None
    /\ bib_data = <<>>
    /\ all_references = <<>>
    /\ last_configured = <<>>
    /\ global_citation_index = <<>>
    /\ global_mapping = <<>>
    /\ markdown = <<>>
    /\ output = <<>>
    /\ rerun = FALSE
    /\ prev_output = <<>>
    /\ engine_calls = 0
    /\ last_op = "init"
    /\ NoRegistry
    /\ pandoc_version = CurrentPandoc
    /\ clock = 0
    /\ \E present \in SUBSET {"a.bib", "b.bib"} :
           bib_files \in [present -> [st_mtime : {0},
                                      entries : BibFileContents]]

\* What no step of this part touches.
ReloadUnchanged ==
    UNCHANGED <<global_citation_index, global_mapping, all_references,
                markdown, output, rerun, prev_output, engine_calls,
                registry_vars, pandoc_version>>

\* mkdocs calls on_config on the plugin object it kept.
ReloadOnConfig ==
    /\ config.plugin = "reload"
    /\ LET r == on_config_reload(config, bib_files, bib_data,
                                 last_configured, clock)
       IN /\ bib_data' = r.bib_data
          /\ last_configured' = r.last_configured
          /\ error' = r.error
    /\ last_op' = "on_config"
    /\ UNCHANGED <<config, bib_files, clock>>
    /\ ReloadUnchanged

\* Time passes.
Tick ==
    /\ config.plugin = "reload"
    /\ clock < MaxTime
    /\ clock' = clock + 1
    /\ last_op' = "tick"
    /\ UNCHANGED <<config, bib_files, bib_data, last_configured, error>>
    /\ ReloadUnchanged

\* A bib file is written, or put in place with the modification time it
\* had elsewhere.
WriteBibFile(f, entries, st_mtime) ==
    /\ config.plugin = "reload"
    /\ st_mtime <= clock
    /\ bib_files' = [g \in DOMAIN bib_files \cup {f} |->
                        IF g = f
                        THEN [st_mtime |-> st_mtime, entries |-> entries]
                        ELSE bib_files[g]]
    /\ last_op' = "write"
    /\ UNCHANGED <<config, clock, bib_data, last_configured, error>>
    /\ ReloadUnchanged

\* A bib file is deleted.
RemoveBibFile(f) ==
    /\ config.plugin = "reload"
    /\ f \in DOMAIN bib_files
    /\ bib_files' = [g \in DOMAIN bib_files \ {f} |-> bib_files[g]]
    /\ last_op' = "remove"
    /\ UNCHANGED <<config, clock, bib_data, last_configured, error>>
    /\ ReloadUnchanged

\* mkdocs.yml is edited: the next rebuild runs with another configuration.
EditMkdocsYml(cfg) ==
    /\ config.plugin = "reload"
    /\ cfg # config
    /\ config' = cfg
    /\ last_op' = "mkdocs.yml"
    /\ UNCHANGED <<bib_files, clock, bib_data, last_configured, error>>
    /\ ReloadUnchanged

NextReload ==
    \/ ReloadOnConfig
    \/ Tick
    \/ \E f \in {"a.bib", "b.bib"}, entries \in BibFileContents,
          st_mtime \in 0..MaxTime : WriteBibFile(f, entries, st_mtime)
    \/ \E f \in {"a.bib", "b.bib"} : RemoveBibFile(f)
    \/ \E cfg \in ReloadConfigs : EditMkdocsYml(cfg)

SpecReload == InitReload /\ [][NextReload]_vars

(***************************************************************************)
(* What the claims read off a document.                                    *)
(***************************************************************************)
KnownKeys == SeqToSet(BibFileEntries)

\* The keys written in the cite blocks of a document, left to right.
CitedKeys(md) ==
    Concat([i \in 1..Len(find_cite_blocks(md)) |->
               find_cite_blocks(md)[i].keys])

Occurrences(seq, x) == Cardinality({i \in 1..Len(seq) : seq[i] = x})

\* The in-text markers and the bibliographies of a returned document.
IsMarker(tok) == tok.t \in {"footnotes", "links"}
IsBibliography(tok) == tok.t \in {"bibliography_footnote", "bibliography_link"}
Markers(md) == SelectSeq(md, IsMarker)
Bibliographies(md) == SelectSeq(md, IsBibliography)

\* The items of key k in a token.
ItemsOf(tok, k) == {j \in 1..Len(tok.items) : tok.items[j].key = k}

\* The number of in-text markers written for key k.
MarkerCount(md, k) ==
    LET ms == Markers(md)
        RECURSIVE Sum(_)
        Sum(i) == IF i = 0 THEN 0
                  ELSE Cardinality(ItemsOf(ms[i], k)) + Sum(i - 1)
    IN Sum(Len(ms))

PerPage == config.bib_type = "per_page"
\* The plugin with a citation index has returned a document.
AfterPage ==
    /\ config.plugin = "indexed"
    /\ last_op = "on_page_markdown"
    /\ config.cite_format # "inline"
\* The plugin with selectable cite_style has returned a document.
AfterLegacyPage ==
    /\ config.plugin = "legacy"
    /\ last_op = "on_page_markdown"

\* The index the last on_page_markdown worked with.
PageIndex ==
    IF PerPage
    THEN generate_index(find_cite_blocks(markdown), bib_data, config).index
    ELSE global_citation_index

\* What the cite_style plugin made of the last document: the keys it
\* found, the reference rows of the page, the row of key k.
LegacyCitedKeys == legacy_cite_keys(markdown, config.cite_style)

LegacyReferences ==
    format_citations(SelectSeq(LegacyCitedKeys, LAMBDA k : InBib(k, bib_data)),
                     config.csl_file,
                     [references |-> <<>>, all_references |-> <<>>,
                      calls |-> 0]).references

LegacyRow(k) ==
    LegacyReferences[CHOOSE i \in 1..Len(LegacyReferences) :
                         LegacyReferences[i].key = k]

IsLegacyBibliography(tok) ==
    tok.t \in {"bibliography_footnote", "full_bibliography"}

IsLegacyMarker(tok) == tok.t \in {"footnotes", "at", "cite"}

\* C1 (as claimed): a key cited more than once in one document has exactly one entry in
\* the citation index and exactly one row in every bibliography of the
\* returned document, and each of its in-text markers carries the label
\* (ref) of that one entry; the index of the whole site never lists a key
\* twice either.  In the cite_style plugin the key has one reference row,
\* one row in every bibliography and in all_references, and each "@key"
\* written for it is replaced by the number of that row.
C1_CitedTwiceOneEntryOneLabel ==
    /\ \A k \in KnownKeys :
           Cardinality({i \in 1..Len(global_citation_index) :
                           global_citation_index[i].key = k}) <= 1
    /\ (AfterPage /\ PerPage) =>
         \A k \in KnownKeys :
            Occurrences(CitedKeys(markdown), k) >= 2 =>
              /\ Cardinality({i \in 1..Len(PageIndex) :
                                 PageIndex[i].key = k}) = 1
              /\ \A i \in 1..Len(output) :
                    IsBibliography(output[i]) =>
                        Cardinality(ItemsOf(output[i], k)) = 1
              /\ MarkerCount(output, k) = Occurrences(CitedKeys(markdown), k)
              /\ \A i \in 1..Len(output) :
                    IsMarker(output[i]) =>
                        \A j \in ItemsOf(output[i], k) :
                            output[i].items[j].ref = IndexGet(PageIndex, k).ref
    /\ AfterPage =>
         \A k \in KnownKeys : \A i \in 1..Len(output) :
            IsBibliography(output[i]) =>
                Cardinality(ItemsOf(output[i], k)) <= 1
    /\ \A k \in KnownKeys :
           Cardinality({i \in 1..Len(all_references) :
                           all_references[i].key = k}) <= 1
    /\ AfterLegacyPage =>
         \A k \in KnownKeys :
            Occurrences(LegacyCitedKeys, k) >= 2 =>
              /\ Cardinality({i \in 1..Len(LegacyReferences) :
                                 LegacyReferences[i].key = k}) = 1
              /\ \A i \in 1..Len(output) :
                    IsLegacyBibliography(output[i]) =>
                        Cardinality(ItemsOf(output[i], k)) = 1
              /\ \A i \in 1..Len(output) :
                    \A j \in ItemsOf(output[i], k) :
                       IsLegacyMarker(output[i]) =>
                          /\ output[i].items[j].idx = LegacyRow(k).idx
                          /\ config.cite_style = "plain" =>
                                 output[i].items[j].rest = <<>>

\* The position at which key k is first cited.
FirstUse(keys, k) == CHOOSE i \in 1..Len(keys) :
                        keys[i] = k /\ \A j \in 1..(i - 1) : keys[j] # k

\* An index lists exactly the known keys of `keys', in first-use order,
\* numbered 1, 2, ... without gaps.
FirstUseNumbered(index, keys) ==
    /\ {index[i].key : i \in 1..Len(index)} = SeqToSet(keys) \cap KnownKeys
    /\ Len(index) = Cardinality(SeqToSet(keys) \cap KnownKeys)
    /\ \A i \in 1..Len(index) : index[i].idx = i
    /\ \A i, j \in 1..Len(index) :
          i < j => FirstUse(keys, index[i].key) < FirstUse(keys, index[j].key)

\* C2: generate_index numbers the distinct known keys 1..N in the order of
\* their first use (unknown and repeated keys take no ordinal), and every
\* bibliography of the page lists its rows in that order; the site-wide
\* index is numbered 1..N without gaps too.
C2_OrdinalsInFirstUseOrder ==
    /\ \A i \in 1..Len(global_citation_index) :
          global_citation_index[i].idx = i
    /\ (AfterPage /\ PerPage) =>
          /\ FirstUseNumbered(PageIndex, CitedKeys(markdown))
          /\ \A i \in 1..Len(output) :
                IsBibliography(output[i]) => output[i].items = PageIndex

\* A page that cites t2, then t again, an unknown key and t2 again: t2 is
\* 1 and t is 2.
C2_Witness ==
    /\ AfterPage /\ PerPage
    /\ markdown = <<Cite(<<KeyT2>>), Cite(<<KeyT, KeyZ, KeyT2>>),
                    PerPageBibCommand>>
    /\ Len(PageIndex) = 2
    /\ PageIndex[1].key = KeyT2 /\ PageIndex[2].key = KeyT
    /\ Len(Bibliographies(output)) = 1

\* C3 (as claimed): a cite block whose keys are all unknown is found
\* unmodified in the returned document, as often as it was written,
\* in footnote and in link mode.
C3_UnknownBlockVerbatim ==
    AfterPage =>
        Occurrences(output, Cite(<<KeyZ>>))
            = Occurrences(markdown, Cite(<<KeyZ>>))

\* C4 (as claimed): where the page has a full-bibliography marker, the
\* returned document has a bibliography with one row per loaded entry, in
\* load order.
C4_FullMarkerListsAllEntries ==
    (AfterPage /\ Occurrences(markdown, GlobalBibCommand) >= 1) =>
        \E i \in 1..Len(output) :
            /\ IsBibliography(output[i])
            /\ [j \in 1..Len(output[i].items) |-> output[i].items[j].key]
                   = bib_data

\* A page whose bibliography is not the empty string.
VisibleBibliography == config.cite_format = "link" \/ PageIndex # <<>>

\* C5 (as claimed): with automatic insertion, a page with at most one
\* explicit per-page marker ends up with exactly one bibliography.
C5_OneBibliographyPerPage ==
    (AfterPage /\ PerPage /\ config.automatic_per_page
        /\ VisibleBibliography) =>
        Len(Bibliographies(output)) = 1

\* C5 (amended): with automatic insertion the per-page marker is appended
\* to every page, whether or not the page has one already: the returned
\* document has one bibliography per explicit marker plus one more, and it
\* ends with a bibliography; without automatic insertion it has one per
\* explicit marker.
C5_MarkerAlwaysAppended ==
    (AfterPage /\ PerPage /\ VisibleBibliography) =>
        IF config.automatic_per_page
        THEN /\ Len(Bibliographies(output))
                   = Occurrences(markdown, PerPageBibCommand) + 1
             /\ IsBibliography(output[Len(output)])
        ELSE Len(Bibliographies(output))
                 = Occurrences(markdown, PerPageBibCommand)

\* A page with an explicit marker, processed with automatic insertion.
C5_Witness ==
    /\ AfterPage /\ PerPage /\ config.automatic_per_page
    /\ markdown = <<Cite(<<KeyT>>), PerPageBibCommand>>
    /\ Len(Bibliographies(output)) = 2

\* C6: when on_page_markdown is run twice in a row on the same document,
\* the second run returns what the first returned.
C6_SecondRunSameOutput == rerun => output = prev_output

\* A page with a resolved cite block and a bibliography, processed twice.
C6_Witness ==
    /\ rerun
    /\ last_op = "on_page_markdown"
    /\ Len(Markers(output)) >= 1
    /\ Len(Bibliographies(output)) >= 1

\* C7: over any sequence of validate_citation_blocks and
\* validate_inline_references calls, a key that has a value in
\* _reference_cache, and a block that has a value in _inline_cache, keeps
\* that value: it is never overwritten and never removed.
C7_CachesInsertIfAbsent ==
    [][pandoc_output' \in {None, WellFormed} =>
          /\ \A k \in DOMAIN reference_cache :
                 /\ k \in DOMAIN reference_cache'
                 /\ reference_cache'[k] = reference_cache[k]
          /\ \A b \in DOMAIN inline_cache :
                 /\ b \in DOMAIN inline_cache'
                 /\ inline_cache'[b] = inline_cache[b]]_vars

\* The call just made was given only blocks, or only keys, that an earlier
\* validate call of the same kind was given.
Revalidation ==
    \/ /\ last_op' = "validate_citation_blocks"
       /\ SeqToSet(call_args') \subseteq validated_blocks
    \/ /\ last_op' = "validate_inline_references"
       /\ SeqToSet(call_args') \subseteq validated_refs

\* C8: a validate call on blocks or keys that an earlier validate call
\* already processed invokes the external engine zero times and leaves both
\* caches unchanged, for author-date and for footnote styles, blocks that
\* contain an unknown key included.
C8_RevalidationIsNoOp ==
    [][(Revalidation /\ pandoc_output' \in {None, WellFormed}) =>
          /\ engine_calls' = 0
          /\ inline_cache' = inline_cache
          /\ reference_cache' = reference_cache]_vars

\* C9 (as claimed): while one document is processed the external engine is
\* invoked at most once.
C9_EngineCalledAtMostOnce ==
    last_op = "on_page_markdown" => engine_calls <= 1

\* C10: in global scope no on_page_markdown call changes
\* global_citation_index or global_mapping.
C10_GlobalIndexFrozen ==
    [][(config.bib_type = "global" /\ last_op' = "on_page_markdown") =>
          /\ global_citation_index' = global_citation_index
          /\ global_mapping' = global_mapping]_vars

\* A page processed against a site-wide index that was built from other
\* pages: it cites t in a block of its own, which the index of t2 and t
\* does not map.
C10_Witness ==
    /\ config.bib_type = "global"
    /\ last_op = "on_page_markdown"
    /\ Len(global_citation_index) = 2
    /\ global_citation_index[1].key = KeyT2
    /\ find_cite_blocks(markdown) = <<Cite(<<KeyT>>)>>
    /\ \A i \in 1..Len(global_mapping) :
          global_mapping[i].block # Cite(<<KeyT>>)

\* The configurations the claim calls invalid.
InvalidConfig(c) ==
    \/ (c.bib_file = None /\ c.bib_dir = None)
    \/ ~HasPlaceholder(c.ref_format)
    \/ (c.cite_format = "inline" /\ c.csl_file = None)

\* C11: on_config raises a ConfigurationError whenever the configuration
\* is invalid (no bibliography source, ref_format without placeholder,
\* cite_format inline without CSL file) and then leaves bib_data and
\* last_configured as they were; with a valid configuration it raises
\* nothing and the bibliography is loaded.
C11_ConfigErrorBeforeLoad ==
    [][(config.plugin = "indexed" /\ last_op' = "on_config") =>
          IF InvalidConfig(config)
          THEN /\ error' = ConfigurationError
               /\ bib_data' = bib_data
               /\ last_configured' = last_configured
          ELSE /\ error' = None
               /\ last_configured'
               /\ bib_data' = BibFileEntries]_vars

\* on_config has failed on a plugin object that an earlier on_config had
\* configured: the bibliography of the earlier call is still there.
C11_Witness ==
    /\ last_op = "on_config"
    /\ error = ConfigurationError
    /\ config.ref_format = ""
    /\ last_configured
    /\ bib_data = BibFileEntries

\* C12 (as claimed): the version of pandoc is examined when the registry
\* is constructed, which fails exactly for a version below 2.11, and no
\* later step fails because of the version: the conversion of the cite
\* blocks of a document raises nothing, whatever the version.
C12_VersionCheckedOnceAtConstruction ==
    /\ last_op = "PandocRegistry" =>
          (error # None <=> TupleLess(pandoc_version, MinPandoc))
    /\ last_op \in {"insert_citation_keys_inline", "format_pandoc"} =>
          error = None

\* C13 (as claimed): whenever pandoc's output cannot be parsed, for want of a
\* references section or of a reference entry that matches a pattern, the
\* validate call fails with an error that carries the raw output, and both
\* caches keep the contents they had.
C13_UnparsableOutputIsFatal ==
    [][pandoc_output' \in Unparsable =>
          /\ error' \notin {None, ParseError}
          /\ inline_cache' = inline_cache
          /\ reference_cache' = reference_cache]_vars

\* C14 (as claimed): in per-page scope the returned document holds neither
\* marker any more, and in the place of every per-page marker stands the
\* assembled bibliography: one row per entry of the page's index, in index
\* order, the text of each entry character for character as it is in the
\* index.
C14_BibliographyVerbatim ==
    (AfterPage /\ PerPage) =>
        /\ output # ReError
        /\ Count(output, "per_page_bib_command") = 0
        /\ Count(output, "global_bib_command") = 0
        /\ \A i \in 1..Len(output) :
               IsBibliography(output[i]) => output[i].items = PageIndex
        /\ PageIndex # <<>> =>
               Len(Bibliographies(output)) =
                   Count(markdown, "per_page_bib_command")
                   + (IF config.automatic_per_page THEN 1 ELSE 0)

\* The mapping the last on_page_markdown worked with.
PageMapping ==
    page_index(markdown, config, bib_data, global_citation_index,
               global_mapping).mapping

\* The entry of cite block b in the mapping, if it has one with keys.
MappingOf(b) ==
    SelectSeq(PageMapping, LAMBDA m : m.block = b /\ m.keys # <<>>)
Resolved(b) == b.t = "cite" /\ MappingOf(b) # <<>>

\* The rendered text of cite block b: what the substitution makes of the
\* block on its own.
Rendered(b) ==
    insert_citations(PageIndex, MappingOf(b), <<b>>, config)

\* Cite block b holds the raw text of another cite block of the mapping.
HoldsMappedBlock(b) ==
    \E i \in 1..Len(PageMapping) : PageMapping[i].block \in SeqToSet(b.items)

\* The tokens of a document other than the markers, what replaces them and
\* the line break written before an appended marker.
IsBody(tok) == tok.t \in {"cite", "text", "footnotes", "links"}
Body(md) == SelectSeq(md, IsBody)

\* C15 (as claimed): in the returned document every occurrence of a resolved
\* cite block stands replaced by the rendered text of that block, and the
\* text outside the cite blocks is as it was.
C15_EveryOccurrenceReplaced ==
    AfterPage =>
        /\ Len(Body(output)) = Len(Body(markdown))
        /\ \A i \in 1..Len(Body(markdown)) :
               LET tok == Body(markdown)[i]
               IN /\ Resolved(tok) => <<Body(output)[i]>> = Rendered(tok)
                  /\ tok.t # "cite" => Body(output)[i] = tok

\* C15 (amended): the same for every resolved cite block that holds the raw
\* text of no other cite block of the mapping.
C15_EveryPlainOccurrenceReplaced ==
    AfterPage =>
        /\ Len(Body(output)) = Len(Body(markdown))
        /\ \A i \in 1..Len(Body(markdown)) :
               LET tok == Body(markdown)[i]
               IN /\ (Resolved(tok) /\ ~HoldsMappedBlock(tok)) =>
                         <<Body(output)[i]>> = Rendered(tok)
                  /\ tok.t # "cite" => Body(output)[i] = tok

\* A page with the block "[@t]" written twice: both occurrences became the
\* same footnote mark and the text after them is as it was.
C15_Witness ==
    /\ AfterPage /\ PerPage
    /\ config.cite_format = "footnote"
    /\ markdown = <<Cite(<<KeyT>>), Cite(<<KeyT>>), Text, GlobalBibCommand>>
    /\ Len(Markers(output)) = 2
    /\ Markers(output)[1] = Markers(output)[2]
    /\ Count(output, "cite") = 0
    /\ Count(output, "text") = 1

(***************************************************************************)
(* What the claims read off the results of the two parsers.                 *)
(***************************************************************************)
AfterCitations == last_op = "Citation.from_markdown"
AfterBlocks == last_op = "CitationBlock.from_markdown"

\* str.strip()
Strip(str) ==
    LET keep == {i \in 1..Len(str) : ~IsSpace(str[i])}
    IN IF keep = {} THEN <<>>
       ELSE SubSeq(str, FirstIndex(keep), LastIndex(keep))

\* The parts of a fragment "[prose] @key[, prose]" as they are written: what
\* stands before the "@", between the "@" and the comma, and after the
\* comma.
WrittenPrefix(str) == SubSeq(str, 1, Find(str, "@", 1) - 1)
WrittenKey(str) ==
    LET comma == Find(str, ",", 1)
    IN SubSeq(str, Find(str, "@", 1) + 1,
              IF comma = 0 THEN Len(str) ELSE comma - 1)
WrittenSuffix(str) ==
    LET comma == Find(str, ",", 1)
    IN IF comma = 0 THEN <<>> ELSE SubSeq(str, comma + 1, Len(str))

\* The "@" at position p is the "@" of an email address.
AtOfEmail(str, p) ==
    /\ p >= 2
    /\ EmailLocalChar(str[p - 1])
    /\ \E dot \in (p + 2)..(Len(str) - 2) :
           /\ \A i \in (p + 1)..(dot - 1) : EmailDomainChar(str[i])
           /\ str[dot] = "."
           /\ Letter(str[dot + 1])
           /\ Letter(str[dot + 2])

\* The text has an "@", and every "@" it has is that of an email address.
OnlyEmailAts(str) ==
    /\ Find(str, "@", 1) # 0
    /\ \A p \in 1..Len(str) : str[p] = "@" => AtOfEmail(str, p)

\* The positions of the "@" that a returned block was made from.
Ats(block) ==
    IF block.inline THEN {block.span.start}
    ELSE {p \in block.span.start..block.span.end : markdown[p] = "@"}

\* A bracketed span of the text holds an opening bracket.
NestedBrackets(str) ==
    LET spans == block_finditer(str, 1)
    IN \E k \in 1..Len(spans) :
           Find(str, "[", spans[k].start + 1) \in
               (spans[k].start + 1)..spans[k].end

\* [\w-]+
ValidKey(key) == key # <<>> /\ \A i \in 1..Len(key) : KeyChar(key[i])

\* The citations of a result of either parser.
CitationsOf(result) ==
    IF AfterBlocks
    THEN UNION {SeqToSet(result[i].citations) : i \in 1..Len(result)}
    ELSE SeqToSet(result)

\* C16 (as claimed): for a fragment "[prose] @key[, prose]"
\* Citation.from_markdown returns one Citation with that key, the prose
\* before the "@" stripped of whitespace as prefix and the prose after the
\* comma stripped of whitespace as suffix.
C16_PrefixSuffixTrimmed ==
    (AfterCitations /\ markdown \in Fragments) =>
        output = <<Citation(WrittenKey(markdown),
                            Strip(WrittenPrefix(markdown)),
                            Strip(WrittenSuffix(markdown)))>>

\* C17 (as claimed): from a text whose every "@" belongs to an email address
\* neither parser returns a citation.
C17_NoCitationFromEmail ==
    ((AfterCitations \/ AfterBlocks) /\ OnlyEmailAts(markdown)) =>
        output = <<>>

\* C18 (as claimed): CitationBlock.from_markdown returns the blocks,
\* bracketed and bare alike, in the order in which they begin in the source.
C18_BlocksInSourceOrder ==
    AfterBlocks =>
        \A i, j \in 1..Len(output) :
            i < j => output[i].span.start < output[j].span.start

\* C19 (as claimed): no "@" of the source is the "@" of two returned blocks;
\* in particular an "@" within a returned bracketed block is not returned as
\* a bare citation as well.
C19_NoDoubleCount ==
    AfterBlocks =>
        \A i, j \in 1..Len(output) :
            i # j => Ats(output[i]) \cap Ats(output[j]) = {}

\* C19 (amended): the same for a source in which no bracketed span holds an
\* opening bracket.
C19_NoDoubleCountUnnested ==
    (AfterBlocks /\ ~NestedBrackets(markdown)) =>
        \A i, j \in 1..Len(output) :
            i # j => Ats(output[i]) \cap Ats(output[j]) = {}

\* "[s @b, p] @a": one bracketed block made from the "@" of b and one bare
\* block made from the "@" of a.
C19_Witness ==
    /\ AfterBlocks
    /\ markdown = <<"[", "s", " ", "@", "b", ",", " ", "p", "]", " ",
                    "@", "a">>
    /\ Len(output) = 2
    /\ ~output[1].inline /\ Ats(output[1]) = {4}
    /\ output[2].inline /\ Ats(output[2]) = {11}

\* C20 (as claimed): every Citation either parser returns has a key that is
\* not empty and holds word characters and hyphens only.
C20_KeyCharset ==
    (AfterCitations \/ AfterBlocks) =>
        \A c \in CitationsOf(output) : ValidKey(c.key)

\* The text a returned block was parsed from, and whether a text occurs in
\* another.
SourceSpan(block) == SubSeq(markdown, block.span.start, block.span.end)
Occurs(old, str) ==
    \E i \in 1..(Len(str) - Len(old) + 1) :
        SubSeq(str, i, i + Len(old) - 1) = old

\* C21 (as claimed): for every block CitationBlock.from_markdown returns,
\* bracketed or bare, str(block) is the very text of the source the block
\* was parsed from, and so occurs in the source.
C21_StrIsSourceSpan ==
    AfterBlocks =>
        \A i \in 1..Len(output) :
            /\ CitationBlock_str(output[i]) = SourceSpan(output[i])
            /\ Occurs(CitationBlock_str(output[i]), markdown)

(***************************************************************************)
(* What the claims read off the calls of a registry.                       *)
(***************************************************************************)
ReferenceTextOps ==
    {"SimpleRegistry.reference_text", "PandocRegistry.reference_text"}

\* C22: a call of reference_text, of either registry, leaves the
\* bibliography data and the two caches as they were, and the second of two
\* calls for the same key returns what the first returned (the same text,
\* or the same error).
C22_ReferenceTextIsPure ==
    [][last_op' \in ReferenceTextOps =>
          /\ bib_data' = bib_data
          /\ inline_cache' = inline_cache
          /\ reference_cache' = reference_cache
          /\ is_inline' = is_inline
          /\ rerun' => (output' = output /\ error' = error)]_vars

\* The key `test` was rendered, and its reference text was asked for twice.
C22_Witness ==
    /\ last_op = "PandocRegistry.reference_text"
    /\ rerun
    /\ call_args = KeyT
    /\ error = None
    /\ output = reference_cache[KeyT]
    /\ prev_output = output

\* The footnote template applied to a key.
Label(key) ==
    IF config.footnote_format = <<"{key}">> THEN key
    ELSE <<"r", "-">> \o key

\* One mark per citation of a key the bibliography has, in the order of the
\* citations, whatever their prefixes and suffixes.
RECURSIVE MarksOfKnown(_)
MarksOfKnown(citations) ==
    IF citations = <<>> THEN <<>>
    ELSE (IF Head(citations).key \in SeqToSet(bib_data)
          THEN <<"[", "^">> \o Label(Head(citations).key) \o <<"]">>
          ELSE <<>>)
         \o MarksOfKnown(Tail(citations))

\* C23: SimpleRegistry.inline_text returns, in the order of the block's
\* citations, one mark "[^label]" for each citation whose key the
\* bibliography has, the label being the footnote template applied to the
\* key; a citation of an unknown key adds nothing, and prefixes and suffixes
\* do not show.
C23_SimpleInlineText ==
    last_op = "SimpleRegistry.inline_text" =>
        output = MarksOfKnown(call_args.citations)

\* An unknown key first, then `test` with a prefix and a suffix, under the
\* template "r-{key}": the one mark "[^r-t]".
C23_Witness ==
    /\ last_op = "SimpleRegistry.inline_text"
    /\ config.footnote_format = <<"r", "-", "{key}">>
    /\ call_args.citations = <<Citation(KeyZ, <<>>, <<>>),
                               Citation(KeyT, <<"s">>, <<"p">>)>>
    /\ output = <<"[", "^", "r", "-", "t", "]">>

\* The style kind of the CSL file the registry was built with.
AuthorDate ==
    /\ config.csl_file.decodes
    /\ config.csl_file.citation_format = "author-date"

\* The footnote marks of the keys of a block that have a reference text.
RenderedMarks(block) ==
    LET rendered == {i \in 1..Len(block) : block[i] \in DOMAIN reference_cache}
    IN [i \in rendered |-> <<"[", "^">> \o Label(block[i]) \o <<"]">>]

\* The strings of marks, in the order of their keys, joined by single
\* spaces.
MarksJoined(block, text) ==
    text = Join(SelectSeq([i \in 1..Len(block) |->
                              IF i \in DOMAIN RenderedMarks(block)
                              THEN RenderedMarks(block)[i] ELSE <<>>],
                          LAMBDA m : m # <<>>),
                <<" ">>)

\* C24: PandocRegistry.inline_text goes by the style kind fixed when the
\* registry was built.  For a CSL file that declares citation-format
\* "author-date" it returns the inline citation rendered for the block (the
\* block's own text while none was rendered) and then the footnote marks of
\* the block's rendered keys; for any other style, and for a CSL file that
\* could not be read, the footnote marks alone.
C24_PandocInlineTextByStyle ==
    last_op = "PandocRegistry.inline_text" =>
        /\ MarksJoined(call_args, output.footnotes)
        /\ IF AuthorDate
           THEN output.inline_text =
                    IF call_args \in DOMAIN inline_cache
                    THEN inline_cache[call_args]
                    ELSE call_args
           ELSE output.inline_text = <<>>

\* Under an author-date style the block of `test` and `test2` was rendered:
\* its inline citation and two footnote marks.
C24_Witness ==
    /\ last_op = "PandocRegistry.inline_text"
    /\ AuthorDate
    /\ call_args = <<KeyT, KeyT2>>
    /\ call_args \in DOMAIN inline_cache
    /\ output.inline_text = inline_cache[call_args]
    /\ output.footnotes = <<"[", "^">> \o Label(KeyT) \o <<"]", " ", "[", "^">>
                          \o Label(KeyT2) \o <<"]">>

\* What a plugin object that has processed no other document returns for
\* the last document.
FreshOutput ==
    IF config.plugin = "indexed"
    THEN on_page_markdown(markdown, config, bib_data, <<>>, <<>>).out
    ELSE legacy_on_page_markdown(markdown, config, bib_data, <<>>).out

\* C25 (as claimed): with a bibliography per page (bib_type per_page; the
\* cite_style plugin knows no other) what on_page_markdown returns for a
\* document does not depend on the documents the plugin object processed
\* before: it is what a plugin object with the same configuration returns
\* that has processed none.
C25_PageOutputIndependentOfHistory ==
    ((AfterPage /\ PerPage) \/ AfterLegacyPage) => output = FreshOutput

\* Every key a mapping lists under a cite block is a key of the index and of
\* the loaded bibliography.
Closed(index, mapping) ==
    \A i \in 1..Len(mapping) :
        \A key \in SeqToSet(mapping[i].keys) :
            InIndex(key, index) /\ InBib(key, bib_data)

\* C26: the index and the mapping generate_index returns are closed: those
\* on_files stores for the site, and those on_page_markdown works with.
C26_IndexClosesMapping ==
    config.plugin = "indexed" =>
        /\ Closed(global_citation_index, global_mapping)
        /\ last_op = "on_page_markdown" => Closed(PageIndex, PageMapping)

\* A page citing two known keys and an unknown one in one block: the mapping
\* lists the known keys under the block, and the index has them.
C26_Witness ==
    /\ AfterPage
    /\ PerPage
    /\ \E i \in 1..Len(PageMapping) :
           /\ PageMapping[i].block = Cite(<<KeyT, KeyZ, KeyT2>>)
           /\ PageMapping[i].keys = <<KeyT, KeyT2>>
    /\ InIndex(KeyT, PageIndex)
    /\ InIndex(KeyT2, PageIndex)
    /\ ~InIndex(KeyZ, PageIndex)

\* The marks insert_citation_keys wrote into the returned document: the key
\* and the label of each.
WrittenMarks ==
    UNION {SeqToSet(output[i].items) :
              i \in {j \in 1..Len(output) : output[j].t = "footnotes"}}

\* C27 (as claimed): every footnote label insert_citation_keys writes into
\* the document is the label of a row format_bibliography makes from the
\* same quads, and a key cited in several cite blocks carries one label in
\* all of them.
C27_MarksMatchRows ==
    last_op = "insert_citation_keys" =>
        /\ \A m \in WrittenMarks :
               \E i \in 1..Len(format_bibliography(call_args, <<>>)) :
                   format_bibliography(call_args, <<>>)[i].label = m.label
        /\ \A m, n \in WrittenMarks : m.key = n.key => m.label = n.label

\* C28 (as claimed): with cite_format inline and a CSL file on_page_markdown
\* returns a document for every page, and in it every cite block that
\* resolved to a key is replaced by its inline citation and footnote marks.
C28_InlineFormatCompletes ==
    (/\ config.plugin = "indexed"
     /\ last_op = "on_page_markdown"
     /\ config.cite_format = "inline"
     /\ config.csl_file # None) =>
        /\ output # TypeError
        /\ \A i \in 1..Len(markdown) :
               Resolved(markdown[i]) =>
                   /\ Occurrences(output, markdown[i]) = 0
                   /\ \E j \in 1..Len(output) : output[j].t = "inline"

\* C29 (as claimed): in the cite_style plugin every "@key" of a cited key of
\* the bibliography is replaced by the footnote number of that key's own
\* row and nothing of it is left behind, also when another cited key is a
\* prefix of it.
C29_MarkerOfItsOwnKey ==
    AfterLegacyPage =>
        \A i \in 1..Len(output) :
            IsLegacyMarker(output[i]) =>
                \A j \in 1..Len(output[i].items) :
                    LET w == output[i].items[j]
                    IN InBib(w.key, bib_data) =>
                           /\ w.idx = LegacyRow(w.key).idx
                           /\ config.cite_style = "plain" => w.rest = <<>>

\* C30: every on_config call that returns loads the bibliography when
\* last_configured is not set (the first call) or when some bib file has
\* a modification time not earlier than last_configured, and sets
\* last_configured to the time of the call; when every bib file is older
\* it leaves bib_data and last_configured as they were.  bib_data_bibtex
\* is written only together with bib_data.
C30_ReloadExactlyWhenNotOlder ==
    [][(config.plugin = "reload" /\ last_op' = "on_config"
            /\ error' = None) =>
          LET fs == bibfiles(config, bib_files)
          IN IF \/ last_configured = <<>>
                \/ \E i \in 1..Len(fs) :
                       bib_files[fs[i]].st_mtime >= last_configured[1]
             THEN /\ bib_data' = refresh_bib_data(fs, bib_files, <<>>)
                  /\ last_configured' = <<clock>>
             ELSE /\ bib_data' = bib_data
                  /\ last_configured' = last_configured]_vars

\* A later on_config call has found every bib file older than the last
\* load and kept the bibliography it had, although a file with other
\* entries and an old modification time was put in place since.
C30_Witness ==
    /\ config.plugin = "reload"
    /\ last_op = "on_config"
    /\ error = None
    /\ last_configured # <<>>
    /\ last_configured[1] < clock
    /\ bibfiles(config, bib_files) # <<>>
    /\ bib_data # refresh_bib_data(bibfiles(config, bib_files), bib_files,
                                   <<>>)

================================================================================
